---- MODULE Spec2Model ----
(***************************************************************************)
(* Model of the rclone migration scripts.                                  *)
(*                                                                         *)
(*   run_rclone_colab_improved.py  the parallel executor with log-based    *)
(*                                 resume (Spec, SpecOracle)               *)
(*   run_rclone_colab.py           the sequential executor (SpecSeq)       *)
(*   gdrive_transfer.py            the size classifier (SpecTier)          *)
(*   rclone_improved.py,           the job builders: source and            *)
(*   gdrive_transfer.py            destination paths (SpecBuild)           *)
(*                                                                         *)
(* Text is modelled at the level of characters: a string is a sequence of  *)
(* one-character strings, so that str.upper() and the `in` substring test  *)
(* are computed, not assumed.                                              *)
(***************************************************************************)
EXTENDS Integers, Sequences, FiniteSets, TLC

(***************************************************************************)
(* Bounds of the model.                                                    *)
(***************************************************************************)
\* number of '!rclone' command lines in the commands file
NumJobs == 3
\* max_workers handed to run_rclone_parallel
MaxWorkers == 2
\* number of times run_rclone_parallel is called in one process
MaxRuns == 3
\* number of times a paused run of the sequential executor is resumed
MaxResumes == 1
\* number of lines a log file of the oracle specification holds at most
MaxLines == 2
\* how far around each tier boundary the sizes handed to the classifier lie
TierSpread == 6
\* number of lines `rclone ls` writes at most
MaxListing == 3
\* number of entries handed to generate_rclone_commands at most, in the
\* lists that are made of any entries
MaxEntries == 3

VARIABLES
    \* ---- run_rclone_colab_improved.py: module globals (lines 18-23)
    lock,                     \* 0 when free, else the ordinal of the job whose worker holds it
    completed_count,
    failed_count,
    skipped_count,
    total_bytes_transferred,
    active_transfers,         \* the keys of the dict
    \* ---- run_rclone_parallel: locals of the main thread
    commands,                 \* the parsed command list, ordinal -> [log_file, size_mb]
    mainPc,                   \* "idle" | "submit" | "wait" | "shutdown" | "summary" | "interrupted"
    submitted,                \* how many futures executor.submit has created
    interrupted,              \* KeyboardInterrupt was raised in this run
    runNo,                    \* how many times run_rclone_parallel was entered
    \* ---- ThreadPoolExecutor
    queue,                    \* the pool's work queue (FIFO of ordinals)
    numThreads,               \* worker threads the pool has started
    \* ---- run_single_command, one activation per job
    pc,                       \* ordinal -> position of the job
    result,                   \* ordinal -> outcome of subprocess.run
    \* ---- the file system
    logs,                     \* ordinal -> the job's log file
    \* ---- history of the current run (not read by any action's guard)
    launched,                 \* ordinal -> subprocesses started for the job in this run
    recorded,                 \* ordinal -> counter increments made for the job in this run
    logAtStart,               \* logs as they were when the run started
    \* ---- check_log_completed on an arbitrary path (SpecOracle)
    oracleFile,
    oracleResult,
    \* ---- run_rclone_colab.py: run_rclone_commands
    seqPc,                    \* "off" | "loop" | "done"
    start_from,
    seqTotal,
    current,
    completed,
    seqStatus,                \* ordinal -> what happened to the command in this run
    seqInterrupted,
    earlier_runs,             \* the runs paused before this one: [start_from, seqStatus, paused]
    \* ---- gdrive_transfer.py: one file from the listing to its tier
    tierPc,                   \* "off" | "listed" | "entry" | "done"
    file_size,                \* the Size of the listing, in bytes (-1: entry not from the listing)
    size_in_mb,               \* the size of the entry, in hundredths of a MB (-1: not yet computed)
    category,                 \* the tier label returned by get_optimal_parameters
    \* ---- rclone_improved.py / gdrive_transfer.py: generate_rclone_commands
    genPc,                    \* "off" | "loop" | "done"
    script,                   \* "rclone_improved" | "gdrive_transfer"
    REMOTE_NAME,
    DESTINATION_REMOTE,
    file_entries,             \* the argument: [formatted_entry, size_mb, path]
    enum_i,                   \* the i of enumerate(file_entries) for the next entry
    source_relative,          \* the local of that name, Unset before its first assignment
    gen_commands,             \* the list `commands` being built
    \* ---- save_commands_to_file, and the reader of run_rclone_parallel
    saved_files,              \* file name -> the lines written to it
    commands_file,            \* the file the executor is pointed at ("none": not yet)
    parsed,                   \* the list `commands` the executor parsed from it
    \* ---- rclone_improved.py: list_files_with_rclone_realtime
    listPc,                   \* "off" | "loop" | "done"
    stdout_lines,             \* what `rclone ls` writes to its standard output
    line_no,                  \* how many of its lines the loop has read
    list_entries,             \* file_entries: [formatted_entry, size_mb, line]
    list_result               \* what the function returns (Unset before it returns)

parVars == <<lock, completed_count, failed_count, skipped_count,
             total_bytes_transferred, active_transfers, commands, mainPc,
             submitted, interrupted, runNo, queue, numThreads, pc, result,
             logs, launched, recorded, logAtStart>>
oracleVars == <<oracleFile, oracleResult>>
seqVars == <<seqPc, start_from, seqTotal, current, completed, seqStatus, seqInterrupted,
            earlier_runs>>
tierVars == <<tierPc, file_size, size_in_mb, category>>
buildVars == <<genPc, script, REMOTE_NAME, DESTINATION_REMOTE, file_entries,
               enum_i, source_relative, gen_commands, saved_files,
               commands_file, parsed>>
listVars == <<listPc, stdout_lines, line_no, list_entries, list_result>>
genVars == <<tierVars, buildVars, listVars>>
execVars == <<parVars, oracleVars, seqVars>>
vars == <<execVars, genVars>>

(***************************************************************************)
(* Strings.                                                                *)
(***************************************************************************)
LowerCase == <<"a","b","c","d","e","f","g","h","i","j","k","l","m",
               "n","o","p","q","r","s","t","u","v","w","x","y","z">>
UpperCase == <<"A","B","C","D","E","F","G","H","I","J","K","L","M",
               "N","O","P","Q","R","S","T","U","V","W","X","Y","Z">>

\* str.upper() on one character
UpperChar(c) ==
    IF \E i \in 1..26 : LowerCase[i] = c
    THEN UpperCase[CHOOSE i \in 1..26 : LowerCase[i] = c]
    ELSE c

\* str.upper()
Upper(s) == [i \in 1..Len(s) |-> UpperChar(s[i])]

\* `m in s` for strings
Contains(s, m) ==
    \E i \in 0..(Len(s) - Len(m)) : \A k \in 1..Len(m) : s[i + k] = m[k]

RECURSIVE Concat(_)
\* ''.join(lines)
Concat(lines) ==
    IF lines = <<>> THEN <<>> ELSE Head(lines) \o Concat(Tail(lines))

\* c in s, for one character
HasChar(s, c) == \E i \in 1..Len(s) : s[i] = c

\* s.replace('"', '')
StripQuotes(s) == SelectSeq(s, LAMBDA c : c # "\"")

RECURSIVE Split(_, _)
\* s.split(sep), sep one character
Split(s, sep) ==
    IF ~HasChar(s, sep) THEN <<s>>
    ELSE LET i == CHOOSE i \in 1..Len(s) :
                      s[i] = sep /\ \A k \in 1..(i - 1) : s[k] # sep
         IN  <<SubSeq(s, 1, i - 1)>> \o Split(SubSeq(s, i + 1, Len(s)), sep)

\* s.split(sep, 1), sep one character
SplitOnce(s, sep) ==
    IF ~HasChar(s, sep) THEN <<s>>
    ELSE LET i == CHOOSE i \in 1..Len(s) :
                      s[i] = sep /\ \A k \in 1..(i - 1) : s[k] # sep
         IN  <<SubSeq(s, 1, i - 1), SubSeq(s, i + 1, Len(s))>>

RECURSIVE Join(_, _)
\* sep.join(parts)
Join(parts, sep) ==
    IF parts = <<>> THEN <<>>
    ELSE IF Len(parts) = 1 THEN parts[1]
    ELSE parts[1] \o sep \o Join(Tail(parts), sep)

\* s.startswith(p)
StartsWith(s, p) == Len(p) <= Len(s) /\ SubSeq(s, 1, Len(p)) = p

RECURSIVE RStrip(_, _)
\* s.rstrip(c), c one character
RStrip(s, c) ==
    IF s # <<>> /\ s[Len(s)] = c THEN RStrip(SubSeq(s, 1, Len(s) - 1), c) ELSE s

\* None, and a local that has not been assigned
None == <<"None">>
Unset == <<"unset">>

\* the decimal digits
Digits == <<"0", "1", "2", "3", "4", "5", "6", "7", "8", "9">>

\* c.isdigit()
IsDigit(c) == \E d \in 1..10 : Digits[d] = c

\* the value of a digit character
DigitValue(c) == (CHOOSE d \in 1..10 : Digits[d] = c) - 1

RECURSIVE IntStr(_)
\* str(n) for an integer n >= 0
IntStr(n) == IF n < 10 THEN <<Digits[n + 1]>> ELSE IntStr(n \div 10) \o <<Digits[(n % 10) + 1]>>

\* f"{n:02d}" for an integer n >= 0
TwoDigits(n) == IF n < 10 THEN <<"0">> \o IntStr(n) ELSE IntStr(n)

\* str(x) for a float x >= 0 with at most two decimals, given in hundredths:
\* the shortest text that reads back as x, always with a decimal point
FloatStr(h) ==
    IntStr(h \div 100) \o <<".">> \o
        (IF h % 10 = 0 THEN <<Digits[((h % 100) \div 10) + 1]>>
         ELSE <<Digits[((h % 100) \div 10) + 1], Digits[(h % 10) + 1]>>)

RECURSIVE IntValue(_)
\* int(s) for a text of digits, 0 for the empty text
IntValue(s) ==
    IF s = <<>> THEN 0
    ELSE IntValue(SubSeq(s, 1, Len(s) - 1)) * 10 + DigitValue(s[Len(s)])

\* float(s), in hundredths, for a text of digits with at most two decimals
FloatValue(s) ==
    LET sp == SplitOnce(s, ".")
        frac == IF Len(sp) > 1 THEN sp[2] ELSE <<>>
    IN  IntValue(sp[1]) * 100
          + (IF Len(frac) = 0 THEN 0
             ELSE IF Len(frac) = 1 THEN DigitValue(frac[1]) * 10
             ELSE DigitValue(frac[1]) * 10 + DigitValue(frac[2]))

\* c.isspace(), for the characters of the model
IsSpace(c) == c \in {" ", "\t", "\n", "\r"}

RECURSIVE LStripSpace(_)
\* s.lstrip()
LStripSpace(s) ==
    IF s # <<>> /\ IsSpace(s[1]) THEN LStripSpace(Tail(s)) ELSE s

RECURSIVE RStripSpace(_)
\* s.rstrip()
RStripSpace(s) ==
    IF s # <<>> /\ IsSpace(s[Len(s)]) THEN RStripSpace(SubSeq(s, 1, Len(s) - 1)) ELSE s

\* s.strip()
Strip(s) == LStripSpace(RStripSpace(s))

\* the position of the first occurrence of m in s, 0 if there is none
Find(s, m) ==
    IF Contains(s, m)
    THEN 1 + CHOOSE i \in 0..(Len(s) - Len(m)) :
                 /\ \A k \in 1..Len(m) : s[i + k] = m[k]
                 /\ \A h \in 0..(i - 1) : \E k \in 1..Len(m) : s[h + k] # m[k]
    ELSE 0

\* s.split(m)[1] for a text s that holds m: what stands between the first
\* occurrence of m and the next one
SecondPiece(s, m) ==
    LET rest == SubSeq(s, Find(s, m) + Len(m), Len(s)) IN
    IF Contains(rest, m) THEN SubSeq(rest, 1, Find(rest, m) - 1) ELSE rest

\* s.split()[0] for a text s that is not blank: its first run of characters
\* that are not whitespace
FirstToken(s) ==
    LET t == LStripSpace(s)
        n == IF \E i \in 1..Len(t) : IsSpace(t[i])
             THEN (CHOOSE i \in 1..Len(t) :
                       IsSpace(t[i]) /\ \A k \in 1..(i - 1) : ~IsSpace(t[k])) - 1
             ELSE Len(t)
    IN  SubSeq(t, 1, n)

\* the marker literals of check_log_completed
MarkERROR == <<"E","R","R","O","R">>
MarkFAILED == <<"F","A","I","L","E","D">>
Mark100 == <<"1","0","0","%">>
MarkTransferred == <<"T","r","a","n","s","f","e","r","r","e","d",":">>
MarkElapsed == <<"E","l","a","p","s","e","d"," ","t","i","m","e",":">>

(***************************************************************************)
(* Log files.  A file is [exists, readable, lines]; `lines` names the      *)
(* lines written to it, in order, and FileText is what f.read() returns.   *)
(***************************************************************************)
\* 'ERROR : disk full\n'
LineErrorUpper ==
    <<"E","R","R","O","R"," ",":"," ","d","i","s","k"," ","f","u","l","l",
      "\n">>
\* 'error reading\n'
LineErrorLower ==
    <<"e","r","r","o","r"," ","r","e","a","d","i","n","g","\n">>
\* 'Failed to copy\n'
LineFailedMixed ==
    <<"F","a","i","l","e","d"," ","t","o"," ","c","o","p","y","\n">>
\* 'fAiLeD\n'
LineFailedOdd ==
    <<"f","A","i","L","e","D","\n">>
\* '100%\n'
LinePercent ==
    <<"1","0","0","%","\n">>
\* 'Transferred: 5 MiB\n'
LineTransferred ==
    <<"T","r","a","n","s","f","e","r","r","e","d",":"," ","5"," ","M","i","B",
      "\n">>
\* 'transferred: 5 MiB\n'
LineTransferredLower ==
    <<"t","r","a","n","s","f","e","r","r","e","d",":"," ","5"," ","M","i","B",
      "\n">>
\* 'Elapsed time: 2.0s\n'
LineElapsed ==
    <<"E","l","a","p","s","e","d"," ","t","i","m","e",":"," ","2",".","0","s",
      "\n">>
\* 'ELAPSED TIME: 2.0s\n'
LineElapsedUpper ==
    <<"E","L","A","P","S","E","D"," ","T","I","M","E",":"," ","2",".","0","s",
      "\n">>
\* 'INFO : Copying\n'
LineInfo ==
    <<"I","N","F","O"," ",":"," ","C","o","p","y","i","n","g","\n">>

LineNames == {"ERROR", "error", "Failed", "fAiLeD", "100%", "Transferred:",
              "transferred:", "Elapsed time:", "ELAPSED TIME:", "INFO"}

LineText(name) ==
    CASE name = "ERROR" -> LineErrorUpper
      [] name = "error" -> LineErrorLower
      [] name = "Failed" -> LineFailedMixed
      [] name = "fAiLeD" -> LineFailedOdd
      [] name = "100%" -> LinePercent
      [] name = "Transferred:" -> LineTransferred
      [] name = "transferred:" -> LineTransferredLower
      [] name = "Elapsed time:" -> LineElapsed
      [] name = "ELAPSED TIME:" -> LineElapsedUpper
      [] name = "INFO" -> LineInfo

\* f.read()
FileText(f) == Concat([i \in 1..Len(f.lines) |-> LineText(f.lines[i])])

NoFile == [exists |-> FALSE, readable |-> FALSE, lines |-> <<>>]

\* the file after a process opened it for appending and wrote `out`
AppendedTo(f, out) ==
    [exists |-> TRUE, readable |-> TRUE, lines |-> f.lines \o out]

(***************************************************************************)
(* check_log_completed(log_path)                                           *)
(***************************************************************************)
\* a test for the markers as written, without upper()
HasErrorMarkerCaseSensitive(content) ==
    \/ Contains(content, MarkERROR)
    \/ Contains(content, MarkFAILED)

\* the test of line 54
HasErrorMarker(content) ==
    \/ Contains(Upper(content), MarkERROR)
    \/ Contains(Upper(content), MarkFAILED)

\* the test of line 57
HasSuccessMarker(content) ==
    \/ Contains(content, Mark100)
    \/ Contains(content, MarkTransferred)
    \/ Contains(content, MarkElapsed)

\* an oracle that takes any readable log without an error marker as done
check_log_completedAnyContent(f) ==
    IF ~f.exists THEN FALSE
    ELSE IF ~f.readable THEN FALSE
    ELSE IF HasErrorMarker(FileText(f)) THEN FALSE
    ELSE TRUE

check_log_completed(f) ==
    IF ~f.exists THEN FALSE                   \* os.path.exists is false: line 59
    ELSE IF ~f.readable THEN FALSE            \* open/read raises: line 61
    ELSE IF HasErrorMarker(FileText(f)) THEN FALSE
    ELSE IF HasSuccessMarker(FileText(f)) THEN TRUE
    ELSE FALSE

(***************************************************************************)
(* The parallel executor: run_rclone_colab_improved.py                     *)
(***************************************************************************)
Jobs == 1..NumJobs

\* max_workers of run_rclone_parallel
max_workers == MaxWorkers

\* the size in the job's comment line, in MB (extract_size_from_comment)
SizeOf(j) == 2 ^ (j - 1)

\* The commands files the executor is given.  One holds both kinds of
\* command: the first carries --log-file=<path> (as rclone_improved.py
\* writes it), the others carry no --log-file= argument (as
\* gdrive_transfer.py writes them, redirecting with '>').  The other holds
\* no command.
CommandFiles ==
    { [j \in Jobs |-> [log_file |-> (j = 1), size_mb |-> SizeOf(j)]],
      <<>> }

\* total = len(commands)
total == Len(commands)

\* What subprocess.run(cmd, shell=True, ...) can do: the exit status of the
\* transfer tool, or an exception of the call, and what the tool appended
\* to its --log-file meanwhile.
ProcessOutcomes ==
    { [res |-> "zero", opened |-> TRUE, out |-> <<"INFO", "Transferred:">>],
      [res |-> "nonzero", opened |-> TRUE, out |-> <<"INFO">>],
      [res |-> "nonzero", opened |-> TRUE, out |-> <<"ERROR", "Transferred:">>],
      [res |-> "nonzero", opened |-> TRUE, out |-> <<>>],
      [res |-> "raised", opened |-> FALSE, out |-> <<>>] }

PendingStates == {"NotSubmitted", "Queued", "RegLock", "RegBody"}
SkippingStates == {"SkipLock", "SkipBody"}
RunningStates == {"Subprocess", "DoneLock", "DoneBody"}
TerminalStates == {"Skipped", "Completed", "Failed"}
InWorker == {"SkipLock", "SkipBody", "RegLock", "RegBody"} \cup RunningStates

\* worker threads that are inside work_item.run()
Busy == Cardinality({j \in Jobs : pc[j] \in InWorker})

\* a pool that starts a thread for every submitted item
AdjustThreadCountUnbounded(n) == n + 1

\* ThreadPoolExecutor._adjust_thread_count: a thread is started for a
\* submitted item while fewer than max_workers exist.
AdjustThreadCount(n) == IF n < max_workers THEN n + 1 ELSE n

\* the oracle is asked about a log of the job whatever its command names
AlreadyDoneAnyLog(j) == check_log_completed(logs[j])

\* a job skipped as soon as its log file exists
AlreadyDoneIfLogExists(j) == commands[j].log_file /\ logs[j].exists

\* lines 68-76: the log path is taken from the command; the job is skipped
\* only if there is one and the oracle answers true.
AlreadyDone(j) == commands[j].log_file /\ check_log_completed(logs[j])

ParInit ==
    /\ lock = 0
    /\ completed_count = 0
    /\ failed_count = 0
    /\ skipped_count = 0
    /\ total_bytes_transferred = 0
    /\ active_transfers = {}
    /\ commands \in CommandFiles
    /\ mainPc = "idle"
    /\ submitted = 0
    /\ interrupted = FALSE
    /\ runNo = 0
    /\ queue = <<>>
    /\ numThreads = 0
    /\ pc = [j \in Jobs |-> "NotSubmitted"]
    /\ result = [j \in Jobs |-> "none"]
    /\ logs = [j \in Jobs |-> NoFile]
    /\ launched = [j \in Jobs |-> 0]
    /\ recorded = [j \in Jobs |-> 0]
    /\ logAtStart = [j \in Jobs |-> NoFile]

\* a log file an earlier session left: a transfer that succeeded
EarlierLog == [exists |-> TRUE, readable |-> TRUE, lines |-> <<"INFO", "Transferred:">>]

\* The executor is started on a disk that earlier sessions wrote to: for
\* every job the log file of an earlier attempt (the one its --log-file=
\* argument names or, for a command without that argument, the one an
\* earlier command for the same file wrote) is absent or holds the log of
\* a successful transfer.
ParInitOnDisk ==
    /\ lock = 0
    /\ completed_count = 0
    /\ failed_count = 0
    /\ skipped_count = 0
    /\ total_bytes_transferred = 0
    /\ active_transfers = {}
    /\ commands \in CommandFiles
    /\ commands # <<>>
    /\ mainPc = "idle"
    /\ submitted = 0
    /\ interrupted = FALSE
    /\ runNo = MaxRuns - 1
    /\ queue = <<>>
    /\ numThreads = 0
    /\ pc = [j \in Jobs |-> "NotSubmitted"]
    /\ result = [j \in Jobs |-> "none"]
    /\ logs \in [Jobs -> {NoFile, EarlierLog}]
    /\ launched = [j \in Jobs |-> 0]
    /\ recorded = [j \in Jobs |-> 0]
    /\ logAtStart = [j \in Jobs |-> NoFile]

\* the counters keep the values of the run before
ResetCountersForgotten ==
    UNCHANGED <<completed_count, failed_count, skipped_count, total_bytes_transferred>>

\* lines 133-136
ResetCounters ==
    /\ completed_count' = 0
    /\ failed_count' = 0
    /\ skipped_count' = 0
    /\ total_bytes_transferred' = 0

\* run_rclone_parallel, lines 130-174: the counters are reset, the file is
\* parsed, and a new pool is made (line 177).
RunStart ==
    /\ mainPc \in {"idle", "summary", "interrupted", "nocommands"}
    /\ runNo < MaxRuns
    /\ runNo' = runNo + 1
    /\ ResetCounters
    /\ mainPc' = IF commands = <<>> THEN "nocommands" ELSE "submit"
    /\ submitted' = 0
    /\ interrupted' = FALSE
    /\ queue' = <<>>
    /\ numThreads' = 0
    /\ pc' = [j \in Jobs |-> "NotSubmitted"]
    /\ result' = [j \in Jobs |-> "none"]
    /\ launched' = [j \in Jobs |-> 0]
    /\ recorded' = [j \in Jobs |-> 0]
    /\ logAtStart' = logs
    /\ UNCHANGED <<oracleVars, seqVars, genVars>>
    /\ UNCHANGED <<lock, active_transfers, commands, logs>>

\* line 178: executor.submit(run_single_command, info), one job per step
Submit ==
    /\ mainPc = "submit"
    /\ submitted < total
    /\ submitted' = submitted + 1
    /\ queue' = Append(queue, submitted + 1)
    /\ pc' = [pc EXCEPT ![submitted + 1] = "Queued"]
    /\ numThreads' = AdjustThreadCount(numThreads)
    /\ mainPc' = IF submitted + 1 = total THEN "wait" ELSE "submit"
    /\ UNCHANGED <<oracleVars, seqVars, genVars>>
    /\ UNCHANGED <<lock, completed_count, failed_count, skipped_count,
                   total_bytes_transferred, active_transfers, commands,
                   interrupted, runNo, result, logs, launched, recorded,
                   logAtStart>>

\* A free worker takes the oldest queued item and runs run_single_command
\* up to its first `with lock` (lines 66-76, 83-84).
Dispatch(j) ==
    /\ queue # <<>>
    /\ j = Head(queue)
    /\ Busy < numThreads
    /\ queue' = Tail(queue)
    /\ pc' = [pc EXCEPT ![j] = IF AlreadyDone(j) THEN "SkipLock" ELSE "RegLock"]
    /\ UNCHANGED <<oracleVars, seqVars, genVars>>
    /\ UNCHANGED <<lock, completed_count, failed_count, skipped_count,
                   total_bytes_transferred, active_transfers, commands, mainPc,
                   submitted, interrupted, runNo, numThreads, result, logs,
                   launched, recorded, logAtStart>>

\* `with lock:` entered without the lock being taken
AcquireWithoutLock(j) ==
    /\ pc[j] \in {"SkipLock", "RegLock", "DoneLock"}
    /\ pc' = [pc EXCEPT ![j] = CASE pc[j] = "SkipLock" -> "SkipBody"
                                 [] pc[j] = "RegLock" -> "RegBody"
                                 [] pc[j] = "DoneLock" -> "DoneBody"]
    /\ UNCHANGED <<oracleVars, seqVars, genVars>>
    /\ UNCHANGED <<lock, completed_count, failed_count, skipped_count,
                   total_bytes_transferred, active_transfers, commands, mainPc,
                   submitted, interrupted, runNo, queue, numThreads, result,
                   logs, launched, recorded, logAtStart>>

\* `with lock:` entered (lines 77, 87, 100, 123)
Acquire(j) ==
    /\ pc[j] \in {"SkipLock", "RegLock", "DoneLock"}
    /\ lock = 0
    /\ lock' = j
    /\ pc' = [pc EXCEPT ![j] = CASE pc[j] = "SkipLock" -> "SkipBody"
                                 [] pc[j] = "RegLock" -> "RegBody"
                                 [] pc[j] = "DoneLock" -> "DoneBody"]
    /\ UNCHANGED <<oracleVars, seqVars, genVars>>
    /\ UNCHANGED <<completed_count, failed_count, skipped_count,
                   total_bytes_transferred, active_transfers, commands, mainPc,
                   submitted, interrupted, runNo, queue, numThreads, result,
                   logs, launched, recorded, logAtStart>>

\* the skip is counted, but the return of line 80 is missing and the job
\* goes on to be launched
SkipBodyNoReturn(j) ==
    /\ pc[j] = "SkipBody"
    /\ skipped_count' = skipped_count + 1
    /\ lock' = 0
    /\ pc' = [pc EXCEPT ![j] = "RegLock"]
    /\ recorded' = [recorded EXCEPT ![j] = @ + 1]
    /\ UNCHANGED <<oracleVars, seqVars, genVars>>
    /\ UNCHANGED <<completed_count, failed_count, total_bytes_transferred,
                   active_transfers, commands, mainPc, submitted, interrupted,
                   runNo, queue, numThreads, result, logs, launched,
                   logAtStart>>

\* lines 77-80: the body of the lock, its release and the return
SkipBody(j) ==
    /\ pc[j] = "SkipBody"
    /\ skipped_count' = skipped_count + 1
    /\ lock' = 0
    /\ pc' = [pc EXCEPT ![j] = "Skipped"]
    /\ recorded' = [recorded EXCEPT ![j] = @ + 1]
    /\ UNCHANGED <<oracleVars, seqVars, genVars>>
    /\ UNCHANGED <<completed_count, failed_count, total_bytes_transferred,
                   active_transfers, commands, mainPc, submitted, interrupted,
                   runNo, queue, numThreads, result, logs, launched,
                   logAtStart>>

\* the lock is still held when subprocess.run is called
RegBodyKeepsLock(j) ==
    /\ pc[j] = "RegBody"
    /\ active_transfers' = active_transfers \cup {j}
    /\ pc' = [pc EXCEPT ![j] = "Subprocess"]
    /\ UNCHANGED <<oracleVars, seqVars, genVars>>
    /\ UNCHANGED <<lock, completed_count, failed_count, skipped_count,
                   total_bytes_transferred, commands, mainPc, submitted,
                   interrupted, runNo, queue, numThreads, result, logs,
                   launched, recorded, logAtStart>>

\* lines 87-93: the job is entered in active_transfers; subprocess.run is
\* called next
RegBody(j) ==
    /\ pc[j] = "RegBody"
    /\ active_transfers' = active_transfers \cup {j}
    /\ lock' = 0
    /\ pc' = [pc EXCEPT ![j] = "Subprocess"]
    /\ UNCHANGED <<oracleVars, seqVars, genVars>>
    /\ UNCHANGED <<completed_count, failed_count, skipped_count,
                   total_bytes_transferred, commands, mainPc, submitted,
                   interrupted, runNo, queue, numThreads, result, logs,
                   launched, recorded, logAtStart>>

\* line 97: subprocess.run starts the transfer and waits for it.  The tool
\* appends to the file its --log-file= names; without that argument the
\* executor's log is not written.
SubprocessRun(j, o) ==
    /\ pc[j] = "Subprocess"
    /\ result' = [result EXCEPT ![j] = o.res]
    /\ logs' = IF commands[j].log_file /\ o.opened
               THEN [logs EXCEPT ![j] = AppendedTo(logs[j], o.out)]
               ELSE logs
    /\ launched' = [launched EXCEPT ![j] = @ + 1]
    /\ pc' = [pc EXCEPT ![j] = "DoneLock"]
    /\ UNCHANGED <<oracleVars, seqVars, genVars>>
    /\ UNCHANGED <<lock, completed_count, failed_count, skipped_count,
                   total_bytes_transferred, active_transfers, commands, mainPc,
                   submitted, interrupted, runNo, queue, numThreads, recorded,
                   logAtStart>>

\* only a nonzero return code is taken as a failure
OutcomeOfReturnCodeOnly(res) == IF res = "nonzero" THEN "Failed" ELSE "Completed"

\* the state a job ends in: line 104 on a return code, line 126 on an
\* exception of subprocess.run
OutcomeOf(res) == IF res = "zero" THEN "Completed" ELSE "Failed"

\* the size of a job is added to the total whatever its outcome
RecordOutcomeAddsAnySize(j, outcome) ==
    IF outcome = "Completed"
    THEN /\ completed_count' = completed_count + 1
         /\ total_bytes_transferred' = total_bytes_transferred + commands[j].size_mb
         /\ UNCHANGED failed_count
    ELSE /\ failed_count' = failed_count + 1
         /\ total_bytes_transferred' = total_bytes_transferred + commands[j].size_mb
         /\ UNCHANGED completed_count

\* a failure that is counted as a completion as well
RecordOutcomeTwice(j, outcome) ==
    IF outcome = "Completed"
    THEN /\ completed_count' = completed_count + 1
         /\ total_bytes_transferred' = total_bytes_transferred + commands[j].size_mb
         /\ UNCHANGED failed_count
    ELSE /\ failed_count' = failed_count + 1
         /\ completed_count' = completed_count + 1
         /\ UNCHANGED total_bytes_transferred

\* the size is assigned to the total, not added to it
RecordOutcomeOverwrite(j, outcome) ==
    IF outcome = "Completed"
    THEN /\ completed_count' = completed_count + 1
         /\ total_bytes_transferred' = commands[j].size_mb
         /\ UNCHANGED failed_count
    ELSE /\ failed_count' = failed_count + 1
         /\ UNCHANGED <<completed_count, total_bytes_transferred>>

\* the counters of lines 104-112 and of line 126
RecordOutcome(j, outcome) ==
    IF outcome = "Completed"
    THEN /\ completed_count' = completed_count + 1
         /\ total_bytes_transferred' = total_bytes_transferred + commands[j].size_mb
         /\ UNCHANGED failed_count
    ELSE /\ failed_count' = failed_count + 1
         /\ UNCHANGED <<completed_count, total_bytes_transferred>>

\* the handler of the exception does not take the job out of the table
DoneBodyKeepsRaised(j) ==
    /\ pc[j] = "DoneBody"
    /\ active_transfers' = IF result[j] = "raised" THEN active_transfers
                           ELSE active_transfers \ {j}
    /\ RecordOutcome(j, OutcomeOf(result[j]))
    /\ lock' = 0
    /\ pc' = [pc EXCEPT ![j] = OutcomeOf(result[j])]
    /\ recorded' = [recorded EXCEPT ![j] = @ + 1]
    /\ result' = [result EXCEPT ![j] = "none"]
    /\ UNCHANGED <<oracleVars, seqVars, genVars>>
    /\ UNCHANGED <<skipped_count, commands, mainPc, submitted, interrupted,
                   runNo, queue, numThreads, logs, launched,
                   logAtStart>>

\* lines 100-119 (subprocess.run returned) and 121-128 (it raised)
DoneBody(j) ==
    /\ pc[j] = "DoneBody"
    /\ active_transfers' = active_transfers \ {j}
    /\ RecordOutcome(j, OutcomeOf(result[j]))
    /\ lock' = 0
    /\ pc' = [pc EXCEPT ![j] = OutcomeOf(result[j])]
    /\ recorded' = [recorded EXCEPT ![j] = @ + 1]
    /\ result' = [result EXCEPT ![j] = "none"]
    /\ UNCHANGED <<oracleVars, seqVars, genVars>>
    /\ UNCHANGED <<skipped_count, commands, mainPc, submitted, interrupted,
                   runNo, queue, numThreads, logs, launched,
                   logAtStart>>

\* lines 180-184 and 192-211: every future is done, as_completed ends, the
\* pool is shut down with nothing left to do and the summary is printed
Finish ==
    /\ mainPc = "wait"
    /\ \A j \in Jobs : pc[j] \in TerminalStates
    /\ mainPc' = "summary"
    /\ UNCHANGED <<oracleVars, seqVars, genVars>>
    /\ UNCHANGED <<lock, completed_count, failed_count, skipped_count,
                   total_bytes_transferred, active_transfers, commands,
                   submitted, interrupted, runNo, queue, numThreads, pc,
                   result, logs, launched, recorded, logAtStart>>

\* lines 207-208: the warning of the summary, "{failed_count} transfers
\* failed. Check log files for details."
WarningPrinted == mainPc = "summary" /\ failed_count > 0

\* a test that counts the failed jobs as well
AllCompletedPrintedCountsFailed ==
    mainPc = "summary" /\ completed_count + failed_count + skipped_count >= Len(commands)

\* lines 210-211: the last line of the summary, "ALL TRANSFERS COMPLETED!"
AllCompletedPrinted ==
    mainPc = "summary" /\ completed_count + skipped_count >= Len(commands)

\* KeyboardInterrupt in the main thread, inside the `with` block of line
\* 177: the block is left through ThreadPoolExecutor.__exit__, which is
\* shutdown(wait=True): nothing is submitted any more, queued items are
\* not cancelled, and the main thread joins the workers.
Interrupt ==
    /\ mainPc \in {"submit", "wait"}
    /\ mainPc' = "shutdown"
    /\ interrupted' = TRUE
    /\ UNCHANGED <<oracleVars, seqVars, genVars>>
    /\ UNCHANGED <<lock, completed_count, failed_count, skipped_count,
                   total_bytes_transferred, active_transfers, commands,
                   submitted, runNo, queue, numThreads, pc, result, logs,
                   launched, recorded, logAtStart>>

\* lines 186-190: the workers have drained the queue and exited, the join
\* returns, the exception reaches the handler, which prints the counts
ShutdownDone ==
    /\ mainPc = "shutdown"
    /\ queue = <<>>
    /\ Busy = 0
    /\ mainPc' = "interrupted"
    /\ UNCHANGED <<oracleVars, seqVars, genVars>>
    /\ UNCHANGED <<lock, completed_count, failed_count, skipped_count,
                   total_bytes_transferred, active_transfers, commands,
                   submitted, interrupted, runNo, queue, numThreads, pc,
                   result, logs, launched, recorded, logAtStart>>

(***************************************************************************)
(* check_log_completed on any path: SpecOracle                             *)
(***************************************************************************)
RECURSIVE LineSeqs(_)
\* the sequences of at most n line names
LineSeqs(n) ==
    IF n = 0 THEN {<<>>}
    ELSE LET shorter == LineSeqs(n - 1)
         IN shorter \cup {Append(q, l) : q \in shorter, l \in LineNames}

\* what log_path can name: nothing, a file that cannot be read (no
\* permission, a directory, bytes that are not UTF-8), or a text file
OracleFiles ==
    {NoFile, [exists |-> TRUE, readable |-> FALSE, lines |-> <<>>]}
    \cup {[exists |-> TRUE, readable |-> TRUE, lines |-> q] : q \in LineSeqs(MaxLines)}

OracleInit ==
    /\ oracleFile \in OracleFiles
    /\ oracleResult = "uncalled"

\* one call of check_log_completed(log_path)
OracleCheck ==
    /\ oracleResult = "uncalled"
    /\ oracleResult' = IF check_log_completed(oracleFile) THEN "true" ELSE "false"
    /\ UNCHANGED <<oracleFile, parVars, seqVars, genVars>>

OracleOff == oracleFile = NoFile /\ oracleResult = "off"

(***************************************************************************)
(* The sequential executor: run_rclone_colab.py                            *)
(***************************************************************************)
\* What get_ipython().system(cmd) can do: return, whatever the exit status
\* of the command (it is not looked at), raise an exception, or be
\* interrupted by the operator.
SystemOutcomes == {"exit0", "exit1", "raised", "interrupt"}

SeqInit ==
    /\ seqPc = "loop"
    /\ start_from \in 1..(NumJobs + 1)
    /\ seqTotal = NumJobs
    /\ current = 0
    /\ completed = 0
    /\ seqStatus = [k \in 1..NumJobs |-> "notrun"]
    /\ seqInterrupted = FALSE
    /\ earlier_runs = <<>>

\* a loop that passes over the command numbered start_from too
SeqSkipThrough ==
    /\ seqPc = "loop"
    /\ current < seqTotal
    /\ current + 1 <= start_from
    /\ current' = current + 1
    /\ seqStatus' = [seqStatus EXCEPT ![current + 1] = "passed"]
    /\ UNCHANGED <<seqPc, start_from, seqTotal, completed, seqInterrupted, earlier_runs>>
    /\ UNCHANGED <<parVars, oracleVars, genVars>>

\* lines 32-37: a command before start_from is passed over
SeqSkip ==
    /\ seqPc = "loop"
    /\ current < seqTotal
    /\ current + 1 < start_from
    /\ current' = current + 1
    /\ seqStatus' = [seqStatus EXCEPT ![current + 1] = "passed"]
    /\ UNCHANGED <<seqPc, start_from, seqTotal, completed, seqInterrupted, earlier_runs>>
    /\ UNCHANGED <<parVars, oracleVars, genVars>>

\* a loop that any exception ends
SeqAfterAnyException(o) == IF o \in {"interrupt", "raised"} THEN "done" ELSE "loop"

\* what an outcome of system(cmd) leaves the loop doing: lines 45-54
SeqAfter(o) == IF o = "interrupt" THEN "done" ELSE "loop"

\* lines 32-54: one command is run
SeqRun(o) ==
    /\ seqPc = "loop"
    /\ current < seqTotal
    /\ current + 1 >= start_from
    /\ current' = current + 1
    /\ completed' = IF o \in {"exit0", "exit1"} THEN completed + 1 ELSE completed
    /\ seqStatus' = [seqStatus EXCEPT ![current + 1] = o]
    /\ seqPc' = SeqAfter(o)
    /\ seqInterrupted' = (o = "interrupt")
    /\ UNCHANGED <<start_from, seqTotal, earlier_runs>>
    /\ UNCHANGED <<parVars, oracleVars, genVars>>

\* lines 56-57: the file is exhausted, the summary is printed
SeqEnd ==
    /\ seqPc = "loop"
    /\ current = seqTotal
    /\ seqPc' = "done"
    /\ UNCHANGED <<start_from, seqTotal, current, completed, seqStatus, seqInterrupted,
                   earlier_runs>>
    /\ UNCHANGED <<parVars, oracleVars, genVars>>

\* a resume point after the command that was interrupted
ResumePointAfter == current + 1

\* line 51: "To resume, set START_FROM = {current}"
ResumePoint == current

\* lines 6 and 60: the operator sets START_FROM to the point the paused run
\* reported and runs the script again, on the same commands file
SeqResume ==
    /\ seqPc = "done"
    /\ seqInterrupted
    /\ Len(earlier_runs) < MaxResumes
    /\ earlier_runs' = Append(earlier_runs,
                              [start_from |-> start_from,
                               seqStatus |-> seqStatus,
                               paused |-> current])
    /\ start_from' = ResumePoint
    /\ seqPc' = "loop"
    /\ current' = 0
    /\ completed' = 0
    /\ seqStatus' = [k \in 1..seqTotal |-> "notrun"]
    /\ seqInterrupted' = FALSE
    /\ UNCHANGED seqTotal
    /\ UNCHANGED <<parVars, oracleVars, genVars>>

SeqOff ==
    /\ seqPc = "off"
    /\ start_from = 1
    /\ seqTotal = 0
    /\ current = 0
    /\ completed = 0
    /\ seqStatus = <<>>
    /\ seqInterrupted = FALSE
    /\ earlier_runs = <<>>

\* the parallel executor is not the script that runs
ParOff ==
    /\ lock = 0
    /\ completed_count = 0
    /\ failed_count = 0
    /\ skipped_count = 0
    /\ total_bytes_transferred = 0
    /\ active_transfers = {}
    /\ commands = <<>>
    /\ mainPc = "off"
    /\ submitted = 0
    /\ interrupted = FALSE
    /\ runNo = 0
    /\ queue = <<>>
    /\ numThreads = 0
    /\ pc = [j \in Jobs |-> "NotSubmitted"]
    /\ result = [j \in Jobs |-> "none"]
    /\ logs = [j \in Jobs |-> NoFile]
    /\ launched = [j \in Jobs |-> 0]
    /\ recorded = [j \in Jobs |-> 0]
    /\ logAtStart = [j \in Jobs |-> NoFile]

(***************************************************************************)
(* The size classifier: gdrive_transfer.py.  Sizes in MB are kept in       *)
(* hundredths, the precision round(.., 2) leaves them with.                *)
(***************************************************************************)
\* 1024 * 1024 of line 249
BytesPerMB == 1024 * 1024

\* line 249: round(file_size / (1024 * 1024), 2), in hundredths.  The
\* quotient is exact in binary floating point and round() rounds its exact
\* value to the nearest hundredth, a tie to the even one.
RoundedMB(bytes) ==
    LET whole == bytes \div BytesPerMB
        x == (bytes % BytesPerMB) * 100
        d == x \div BytesPerMB
        rest == x % BytesPerMB
        half == BytesPerMB \div 2
    IN  whole * 100
          + (IF rest > half \/ (rest = half /\ d % 2 = 1) THEN d + 1 ELSE d)

\* a classifier whose last branch is missing: the function returns None
get_optimal_parametersNoElse(size_mb) ==
    IF size_mb < 1 * 100 THEN "TINY"
    ELSE IF size_mb < 10 * 100 THEN "SMALL"
    ELSE IF size_mb < 100 * 100 THEN "MEDIUM"
    ELSE IF size_mb < 1000 * 100 THEN "LARGE"
    ELSE "None"

\* lines 68-81, the label of the returned pair; size_mb in hundredths
get_optimal_parameters(size_mb) ==
    IF size_mb < 1 * 100 THEN "TINY"
    ELSE IF size_mb < 10 * 100 THEN "SMALL"
    ELSE IF size_mb < 100 * 100 THEN "MEDIUM"
    ELSE IF size_mb < 1000 * 100 THEN "LARGE"
    ELSE "HUGE"

\* the sizes, in MB, at which the code changes tier
TierEdges == {1, 10, 100, 1000}

\* sizes of entries, in hundredths of a MB: around zero and every edge, and
\* two far beyond the last edge
MBSizes ==
    { s \in { e * 100 + d : e \in TierEdges \cup {0}, d \in (0 - TierSpread)..TierSpread } :
        s >= 0 }
      \cup {5000 * 100, 20000 * 100}

\* sizes of listed files, in bytes: around every edge, where the rounding
\* to hundredths changes (5242 and 5243 bytes below an edge), an empty
\* file, and two files whose size in MB is a tie between two hundredths
ByteSizes ==
    { e * BytesPerMB + d : e \in TierEdges,
                           d \in ((0 - TierSpread)..TierSpread) \cup {0 - 5243, 0 - 5242} }
      \cup {0, 131072, 393216}

\* a file of the listing (lines 245-246), or an entry handed to
\* generate_rclone_commands with its size in MB
TierInit ==
    /\ category = "none"
    /\ \/ /\ tierPc = "listed"
          /\ file_size \in ByteSizes
          /\ size_in_mb = 0 - 1
       \/ /\ tierPc = "entry"
          /\ file_size = 0 - 1
          /\ size_in_mb \in MBSizes

\* line 249
ConvertSize ==
    /\ tierPc = "listed"
    /\ size_in_mb' = RoundedMB(file_size)
    /\ tierPc' = "entry"
    /\ UNCHANGED <<file_size, category>>
    /\ UNCHANGED <<execVars, buildVars, listVars>>

\* line 121
Classify ==
    /\ tierPc = "entry"
    /\ category' = get_optimal_parameters(size_in_mb)
    /\ tierPc' = "done"
    /\ UNCHANGED <<file_size, size_in_mb>>
    /\ UNCHANGED <<execVars, buildVars, listVars>>

TierOff ==
    /\ tierPc = "off"
    /\ file_size = 0 - 1
    /\ size_in_mb = 0 - 1
    /\ category = "none"

(***************************************************************************)
(* The job builders: generate_rclone_commands of rclone_improved.py and of *)
(* gdrive_transfer.py.                                                     *)
(***************************************************************************)
\* f'"{x}"'
Quoted(x) == <<"\"">> \o x \o <<"\"">>

RECURSIVE QuotedParts(_)
\* the loop of rclone_improved.py lines 267-268: f'/"{part}"' for each part
QuotedParts(parts) ==
    IF parts = <<>> THEN <<>>
    ELSE <<"/">> \o Quoted(parts[1]) \o QuotedParts(Tail(parts))

\* rclone_improved.py lines 262-271 (gdrive_transfer.py lines 252-263): the
\* formatted string of a listed file; size_text is the text of size_in_mb
FormattedPath(remote_name_only, file_path, size_text) ==
    LET path_parts == Split(file_path, "/") IN
    IF Len(path_parts) > 1
    THEN Quoted(remote_name_only)
           \o QuotedParts(SubSeq(path_parts, 1, Len(path_parts) - 1))
           \o <<"/">> \o Quoted(path_parts[Len(path_parts)])
           \o <<"/">> \o Quoted(size_text)
    ELSE Quoted(remote_name_only)
           \o <<"/">> \o Quoted(path_parts[1])
           \o <<"/">> \o Quoted(size_text)

\* rclone_improved.py line 230
RemoteNameOnly(remote_path) ==
    IF HasChar(remote_path, ":") THEN Split(remote_path, ":")[1] ELSE remote_path

\* an entry is refused unless it has three parts
extract_file_path_from_formatThreeParts(formatted_entry, source_remote) ==
    LET parts == Split(StripQuotes(formatted_entry), "/") IN
    IF Len(parts) < 3 THEN None
    ELSE LET remote_base == SplitOnce(source_remote, ":")[1]
             base_folder == IF HasChar(source_remote, ":")
                            THEN SplitOnce(source_remote, ":")[2]
                            ELSE <<>>
             relative_path == Join(SubSeq(parts, 2, Len(parts) - 1), <<"/">>)
         IN  IF base_folder # <<>>
             THEN remote_base \o <<":">> \o base_folder \o <<"/">> \o relative_path
             ELSE remote_base \o <<":">> \o relative_path

\* rclone_improved.py lines 29-61 (gdrive_transfer.py lines 40-66, the same
\* code)
extract_file_path_from_format(formatted_entry, source_remote) ==
    LET parts == Split(StripQuotes(formatted_entry), "/") IN
    IF Len(parts) < 2 THEN None
    ELSE LET remote_base == SplitOnce(source_remote, ":")[1]
             base_folder == IF HasChar(source_remote, ":")
                            THEN SplitOnce(source_remote, ":")[2]
                            ELSE <<>>
             file_path_parts == SubSeq(parts, 2, Len(parts) - 1)
             relative_path == Join(file_path_parts, <<"/">>)
         IN  IF base_folder # <<>>
             THEN IF relative_path # <<>>
                  THEN remote_base \o <<":">> \o base_folder \o <<"/">> \o relative_path
                  ELSE remote_base \o <<":">> \o base_folder
             ELSE IF relative_path # <<>>
                  THEN remote_base \o <<":">> \o relative_path
                  ELSE remote_base \o <<":">>

\* `not source_path`
Falsy(x) == x = None \/ x = <<>>

\* rclone_improved.py lines 85-102: the destination path, and the value
\* the local source_relative has afterwards
DestImproved(source_path, local) ==
    IF HasChar(source_path, ":")
    THEN LET source_parts == SplitOnce(source_path, ":") IN
         IF Len(source_parts) > 1 /\ source_parts[2] # <<>>
         THEN LET rel == source_parts[2]
                  base_folder == SplitOnce(REMOTE_NAME, ":")[2]
                  stripped ==
                      IF HasChar(REMOTE_NAME, ":")
                            /\ HasChar(SplitOnce(REMOTE_NAME, ":")[2], "/")
                      THEN IF StartsWith(rel, base_folder \o <<"/">>)
                           THEN SubSeq(rel, Len(base_folder) + 2, Len(rel))
                           ELSE IF rel = base_folder THEN <<>> ELSE rel
                      ELSE rel
              IN  [dest_path |-> IF stripped # <<>>
                                 THEN DESTINATION_REMOTE \o stripped
                                 ELSE RStrip(DESTINATION_REMOTE, ":"),
                   source_relative |-> stripped]
         ELSE [dest_path |-> RStrip(DESTINATION_REMOTE, ":"), source_relative |-> local]
    ELSE [dest_path |-> RStrip(DESTINATION_REMOTE, ":"), source_relative |-> local]

\* gdrive_transfer.py lines 103-112
DestGdrive(source_path, local) ==
    IF HasChar(source_path, ":")
    THEN LET source_parts == SplitOnce(source_path, ":") IN
         IF Len(source_parts) > 1 /\ source_parts[2] # <<>>
         THEN [dest_path |-> DESTINATION_REMOTE \o source_parts[2],
               source_relative |-> source_parts[2]]
         ELSE [dest_path |-> RStrip(DESTINATION_REMOTE, ":"), source_relative |-> local]
    ELSE [dest_path |-> RStrip(DESTINATION_REMOTE, ":"), source_relative |-> local]

\* the destination as the script that runs computes it
Dest(source_path, local) ==
    IF script = "rclone_improved"
    THEN DestImproved(source_path, local)
    ELSE DestGdrive(source_path, local)

\* rclone_improved.py line 121 (gdrive_transfer.py line 128)
DisplayName(source_path, local) ==
    IF local # Unset THEN local
    ELSE IF HasChar(source_path, ":") THEN Split(source_path, ":")[2]
    ELSE <<"u","n","k","n","o","w","n">>

\* gdrive_transfer.py tells large files from small ones only
ParamsTwoClasses(size_mb) ==
    IF script = "rclone_improved"
    THEN IF size_mb >= 100 * 100 THEN "HIGH_PERFORMANCE_PARAMS" ELSE "default"
    ELSE IF size_mb >= 100 * 100 THEN "LARGE" ELSE "SMALL"

\* the parameters chosen for a size: rclone_improved.py lines 111-118,
\* gdrive_transfer.py line 121
Params(size_mb) ==
    IF script = "rclone_improved"
    THEN IF size_mb >= 100 * 100 THEN "HIGH_PERFORMANCE_PARAMS" ELSE "default"
    ELSE get_optimal_parameters(size_mb)

\* the configuration the scripts are run with: rclone_improved.py lines 8,
\* 12 and 18 (the directories and the parameter string are kept short)
RCLONE_CONFIG_PATH == <<"/", "c">>
LOG_DIR == <<"/", "l">>
HIGH_PERFORMANCE_PARAMS == <<"-", "-", "t", "r", "a", "n", "s", "f", "e", "r", "s", "=", "6", "4">>

\* gdrive_transfer.py lines 17-29 and 72-81: the parameter string of a tier
\* (each kept to its first option)
TierParams(tier) ==
    CASE tier = "TINY" -> <<"-", "-", "t", "r", "a", "n", "s", "f", "e", "r", "s", "=", "2", "0", "0">>
      [] tier = "SMALL" -> <<"-", "-", "t", "r", "a", "n", "s", "f", "e", "r", "s", "=", "1", "2", "8">>
      [] tier = "MEDIUM" -> <<"-", "-", "t", "r", "a", "n", "s", "f", "e", "r", "s", "=", "6", "4">>
      [] tier = "LARGE" -> <<"-", "-", "t", "r", "a", "n", "s", "f", "e", "r", "s", "=", "3", "2">>
      [] tier = "HUGE" -> <<"-", "-", "t", "r", "a", "n", "s", "f", "e", "r", "s", "=", "1", "6">>

\* the second entry is given the unnumbered log file of the first
LogFileNameFromOne(i) ==
    (IF script = "rclone_improved" THEN LOG_DIR \o <<"/">> ELSE <<>>)
       \o <<"r", "c", "l", "o", "n", "e", "_", "o", "u", "t", "p", "u", "t">> \o (IF i <= 1 THEN <<>> ELSE TwoDigits(i)) \o <<".", "l", "o", "g">>

\* rclone_improved.py lines 105-108, gdrive_transfer.py lines 115-118
LogFileName(i) ==
    (IF script = "rclone_improved" THEN LOG_DIR \o <<"/">> ELSE <<>>)
       \o <<"r", "c", "l", "o", "n", "e", "_", "o", "u", "t", "p", "u", "t">> \o (IF i = 0 THEN <<>> ELSE TwoDigits(i)) \o <<".", "l", "o", "g">>

\* the log files are numbered by the jobs built so far
CommandNumberedByJobs(i, source_path, dest_path, size_mb) ==
    <<"!", "r", "c", "l", "o", "n", "e", " ", "-", "-", "c", "o", "n", "f", "i", "g", "=">> \o RCLONE_CONFIG_PATH \o <<" ", "c", "o", "p", "y", " ", "-", "P", " ">>
       \o Quoted(source_path) \o <<" ">> \o Quoted(dest_path)
       \o (IF script = "rclone_improved"
           THEN (IF size_mb >= 100 * 100 THEN <<" ">> \o HIGH_PERFORMANCE_PARAMS ELSE <<>>)
                   \o <<" ", "-", "-", "l", "o", "g", "-", "l", "e", "v", "e", "l", " ", "I", "N", "F", "O", " ", "-", "-", "l", "o", "g", "-", "f", "i", "l", "e", "=">> \o LogFileName(Len(gen_commands))
           ELSE <<" ">> \o TierParams(get_optimal_parameters(size_mb))
                   \o <<" ", ">", " ">> \o LogFileName(Len(gen_commands)) \o <<" ", "2", ">", "&", "1">>)

\* the command line of a job: rclone_improved.py lines 104-118,
\* gdrive_transfer.py lines 114-125
Command(i, source_path, dest_path, size_mb) ==
    <<"!", "r", "c", "l", "o", "n", "e", " ", "-", "-", "c", "o", "n", "f", "i", "g", "=">> \o RCLONE_CONFIG_PATH \o <<" ", "c", "o", "p", "y", " ", "-", "P", " ">>
       \o Quoted(source_path) \o <<" ">> \o Quoted(dest_path)
       \o (IF script = "rclone_improved"
           THEN (IF size_mb >= 100 * 100 THEN <<" ">> \o HIGH_PERFORMANCE_PARAMS ELSE <<>>)
                   \o <<" ", "-", "-", "l", "o", "g", "-", "l", "e", "v", "e", "l", " ", "I", "N", "F", "O", " ", "-", "-", "l", "o", "g", "-", "f", "i", "l", "e", "=">> \o LogFileName(i)
           ELSE <<" ">> \o TierParams(get_optimal_parameters(size_mb))
                   \o <<" ", ">", " ">> \o LogFileName(i) \o <<" ", "2", ">", "&", "1">>)

\* the configured roots the builders are run with
Remotes ==
    { <<"r",":">>, <<"r",":","b">>, <<"r",":","b","/">>, <<"r",":","a","/","b">>, <<"r">> }
Destinations ==
    { <<"o",":">>, <<"o",":","d">>, <<"o",":","d","/">> }

\* The entries a list is made of: two files as the lister formats them
\* ('s/f' of 0.5 MB, 'f' of 150.0 MB), an entry with the remote and the
\* size and no path between them, and a line with no separator at all.
\* `path` is the path of the listing the entry stands for (None: none).
EntrySamples(remote) ==
    { [formatted_entry |-> FormattedPath(RemoteNameOnly(remote), <<"s","/","f">>, <<"0",".","5">>),
       size_mb |-> 50,
       path |-> <<"s","/","f">>],
      [formatted_entry |-> FormattedPath(RemoteNameOnly(remote), <<"f">>, <<"1","5","0",".","0">>),
       size_mb |-> 15000,
       path |-> <<"f">>],
      [formatted_entry |-> Quoted(RemoteNameOnly(remote)) \o <<"/">> \o Quoted(<<"2",".","0">>),
       size_mb |-> 200,
       path |-> <<>>],
      [formatted_entry |-> <<"x">>,
       size_mb |-> 100,
       path |-> None] }

\* one listed file per tier, smallest first: sizes 0.5, 5, 50, 500 and
\* 5000 MB, as the lister returns them after its sort by size
AscendingEntries(remote) ==
    << [formatted_entry |-> FormattedPath(RemoteNameOnly(remote), <<"s", "/", "f">>, <<"0", ".", "5">>),
        size_mb |-> 50, path |-> <<"s", "/", "f">>],
       [formatted_entry |-> FormattedPath(RemoteNameOnly(remote), <<"s", "/", "f">>, <<"5", ".", "0">>),
        size_mb |-> 500, path |-> <<"s", "/", "f">>],
       [formatted_entry |-> FormattedPath(RemoteNameOnly(remote), <<"s", "/", "f">>, <<"5", "0", ".", "0">>),
        size_mb |-> 5000, path |-> <<"s", "/", "f">>],
       [formatted_entry |-> FormattedPath(RemoteNameOnly(remote), <<"s", "/", "f">>, <<"5", "0", "0", ".", "0">>),
        size_mb |-> 50000, path |-> <<"s", "/", "f">>],
       [formatted_entry |-> FormattedPath(RemoteNameOnly(remote), <<"s", "/", "f">>, <<"5", "0", "0", "0", ".", "0">>),
        size_mb |-> 500000, path |-> <<"s", "/", "f">>] >>

\* generate_rclone_commands(file_entries) is called
BuildInit ==
    /\ genPc = "loop"
    /\ script \in {"rclone_improved", "gdrive_transfer"}
    /\ REMOTE_NAME \in Remotes
    /\ DESTINATION_REMOTE \in Destinations
    /\ \/ \E n \in 0..MaxEntries : file_entries \in [1..n -> EntrySamples(REMOTE_NAME)]
       \/ file_entries = AscendingEntries(REMOTE_NAME)
    /\ enum_i = 0
    /\ source_relative = Unset
    /\ gen_commands = <<>>
    /\ saved_files = <<>>
    /\ commands_file = "none"
    /\ parsed = <<>>

\* one pass of the loop of line 76 (gdrive_transfer.py line 95): the entry
\* is skipped (lines 79-81) or its command is appended (line 122)
GenerateStep ==
    /\ genPc = "loop"
    /\ enum_i < Len(file_entries)
    /\ LET entry == file_entries[enum_i + 1]
           source_path == extract_file_path_from_format(entry.formatted_entry, REMOTE_NAME)
       IN  IF Falsy(source_path)
           THEN UNCHANGED <<source_relative, gen_commands>>
           ELSE LET d == Dest(source_path, source_relative) IN
                /\ source_relative' = d.source_relative
                /\ gen_commands' =
                      Append(gen_commands,
                             [i |-> enum_i,
                              cmd |-> Command(enum_i, source_path, d.dest_path, entry.size_mb),
                              source_path |-> source_path,
                              dest_path |-> d.dest_path,
                              size_mb |-> entry.size_mb,
                              params |-> Params(entry.size_mb),
                              display_name |-> DisplayName(source_path, d.source_relative)])
    /\ enum_i' = enum_i + 1
    /\ UNCHANGED <<genPc, script, REMOTE_NAME, DESTINATION_REMOTE, file_entries,
                   saved_files, commands_file, parsed>>
    /\ UNCHANGED <<execVars, tierVars, listVars>>

\* line 129: return commands
GenerateReturn ==
    /\ genPc = "loop"
    /\ enum_i = Len(file_entries)
    /\ genPc' = "done"
    /\ UNCHANGED <<script, REMOTE_NAME, DESTINATION_REMOTE, file_entries, enum_i,
                   source_relative, gen_commands, saved_files, commands_file,
                   parsed>>
    /\ UNCHANGED <<execVars, tierVars, listVars>>

\* the commands in the order list.sort leaves them in: by size, equal sizes
\* in the order they had (the sort is stable, also with reverse=True)
InsertBySize(sorted, x, reverse) ==
    LET n == Cardinality({k \in 1..Len(sorted) :
                              IF reverse THEN sorted[k].size_mb >= x.size_mb
                                         ELSE sorted[k].size_mb <= x.size_mb})
    IN  SubSeq(sorted, 1, n) \o <<x>> \o SubSeq(sorted, n + 1, Len(sorted))

RECURSIVE SortedBySize(_, _)
\* sorted(commands, key=lambda x: x[1], reverse=reverse)
SortedBySize(cmds, reverse) ==
    IF cmds = <<>> THEN <<>>
    ELSE InsertBySize(SortedBySize(SubSeq(cmds, 1, Len(cmds) - 1), reverse),
                      cmds[Len(cmds)], reverse)

\* the text of a tier label
TierText(tier) ==
    CASE tier = "TINY" -> <<"T", "I", "N", "Y">>
      [] tier = "SMALL" -> <<"S", "M", "A", "L", "L">>
      [] tier = "MEDIUM" -> <<"M", "E", "D", "I", "U", "M">>
      [] tier = "LARGE" -> <<"L", "A", "R", "G", "E">>
      [] tier = "HUGE" -> <<"H", "U", "G", "E">>

\* rclone_improved.py lines 158-160 (gdrive_transfer.py lines 155-157): the
\* three lines written for the k-th job of a list
JobLines(cmds, k) ==
    << <<"#", " ", "F", "i", "l", "e", " ">> \o IntStr(k) \o <<":", " ">> \o cmds[k].display_name
          \o <<" ", "(">> \o FloatStr(cmds[k].size_mb) \o <<" ", "M", "B", ")">>
          \o (IF script = "rclone_improved" THEN <<>>
              ELSE <<" ", "-", " ">> \o TierText(cmds[k].params) \o <<" ", "o", "p", "t", "i", "m", "i", "z", "a", "t", "i", "o", "n">>),
       cmds[k].cmd,
       <<>> >>

RECURSIVE AllJobLines(_, _)
\* the loop of line 158, from the k-th job on
AllJobLines(cmds, k) ==
    IF k > Len(cmds) THEN <<>> ELSE JobLines(cmds, k) \o AllJobLines(cmds, k + 1)

\* rclone_improved.py lines 151-156: the head of a commands file (the time
\* stamp of line 143 is one sample; the sign of line 156 is written '>=')
FileHead(title, note) ==
    << title,
       <<"#", " ", "G", "e", "n", "e", "r", "a", "t", "e", "d", " ", "o", "n", ":", " ", "2", "0", "2", "6", "-", "0", "1", "-", "0", "1", " ", "0", "0", ":", "0", "0", ":", "0", "0">>,
       <<"#", " ", "S", "o", "u", "r", "c", "e", ":", " ">> \o REMOTE_NAME,
       <<"#", " ", "D", "e", "s", "t", "i", "n", "a", "t", "i", "o", "n", ":", " ">> \o DESTINATION_REMOTE,
       <<"#", " ", "T", "o", "t", "a", "l", " ", "f", "i", "l", "e", "s", ":", " ">> \o IntStr(Len(gen_commands)),
       note,
       <<>> >>

\* gdrive_transfer.py lines 149-153
FileHeadOptimized ==
    << <<"#", " ", "S", "P", "E", "E", "D", "-", "O", "P", "T", "I", "M", "I", "Z", "E", "D", " ", "R", "c", "l", "o", "n", "e", " ", "C", "o", "p", "y", " ", "C", "o", "m", "m", "a", "n", "d", "s">>,
       <<"#", " ", "G", "e", "n", "e", "r", "a", "t", "e", "d", " ", "w", "i", "t", "h", " ", "f", "i", "l", "e", " ", "s", "i", "z", "e", "-", "b", "a", "s", "e", "d", " ", "p", "a", "r", "a", "m", "e", "t", "e", "r", " ", "o", "p", "t", "i", "m", "i", "z", "a", "t", "i", "o", "n">>,
       <<"#", " ", "S", "o", "u", "r", "c", "e", ":", " ">> \o REMOTE_NAME,
       <<"#", " ", "D", "e", "s", "t", "i", "n", "a", "t", "i", "o", "n", ":", " ">> \o DESTINATION_REMOTE,
       <<"#", " ", "P", "a", "r", "a", "m", "e", "t", "e", "r", "s", " ", "a", "u", "t", "o", "m", "a", "t", "i", "c", "a", "l", "l", "y", " ", "o", "p", "t", "i", "m", "i", "z", "e", "d", " ", "b", "a", "s", "e", "d", " ", "o", "n", " ", "f", "i", "l", "e", " ", "s", "i", "z", "e">>,
       <<>> >>

\* rclone_improved.py lines 147-192: the three files save_commands_to_file
\* writes; gdrive_transfer.py lines 148-157: its file of all commands
SavedFiles ==
    IF script = "rclone_improved"
    THEN [f \in {"rclone_commands_all.txt", "rclone_commands_largest_first.txt",
                 "rclone_commands_smallest_first.txt"} |->
            CASE f = "rclone_commands_all.txt" ->
                   FileHead(<<"#", " ", "R", "c", "l", "o", "n", "e", " ", "C", "o", "p", "y", " ", "C", "o", "m", "m", "a", "n", "d", "s", " ", "-", " ", "A", "L", "L", " ", "F", "I", "L", "E", "S", " ", "(", "O", "r", "i", "g", "i", "n", "a", "l", " ", "O", "r", "d", "e", "r", ")">>,
                            <<"#", " ", "L", "a", "r", "g", "e", " ", "f", "i", "l", "e", "s", " ", "(", ">", "=", "1", "0", "0", "M", "B", ")", " ", "u", "s", "e", " ", "h", "i", "g", "h", "-", "p", "e", "r", "f", "o", "r", "m", "a", "n", "c", "e", " ", "p", "a", "r", "a", "m", "e", "t", "e", "r", "s">>)
                      \o AllJobLines(gen_commands, 1)
              [] f = "rclone_commands_largest_first.txt" ->
                   FileHead(<<"#", " ", "R", "c", "l", "o", "n", "e", " ", "C", "o", "p", "y", " ", "C", "o", "m", "m", "a", "n", "d", "s", " ", "-", " ", "L", "A", "R", "G", "E", "S", "T", " ", "F", "I", "L", "E", "S", " ", "F", "I", "R", "S", "T">>,
                            <<"#", " ", "S", "o", "r", "t", "e", "d", " ", "b", "y", " ", "s", "i", "z", "e", ":", " ", "L", "A", "R", "G", "E", "S", "T", " ", "-", ">", " ", "S", "M", "A", "L", "L", "E", "S", "T">>)
                      \o AllJobLines(SortedBySize(gen_commands, TRUE), 1)
              [] f = "rclone_commands_smallest_first.txt" ->
                   FileHead(<<"#", " ", "R", "c", "l", "o", "n", "e", " ", "C", "o", "p", "y", " ", "C", "o", "m", "m", "a", "n", "d", "s", " ", "-", " ", "S", "M", "A", "L", "L", "E", "S", "T", " ", "F", "I", "L", "E", "S", " ", "F", "I", "R", "S", "T">>,
                            <<"#", " ", "S", "o", "r", "t", "e", "d", " ", "b", "y", " ", "s", "i", "z", "e", ":", " ", "S", "M", "A", "L", "L", "E", "S", "T", " ", "-", ">", " ", "L", "A", "R", "G", "E", "S", "T">>)
                      \o AllJobLines(SortedBySize(gen_commands, FALSE), 1)]
    ELSE [f \in {"rclone_commands_all_optimized.txt"} |->
            FileHeadOptimized \o AllJobLines(gen_commands, 1)]

\* main, lines 369-371 (gdrive_transfer.py lines 332-334): the commands are
\* saved if there are any
SaveCommands ==
    /\ genPc = "done"
    /\ gen_commands # <<>>
    /\ genPc' = "saved"
    /\ saved_files' = SavedFiles
    /\ UNCHANGED <<script, REMOTE_NAME, DESTINATION_REMOTE, file_entries, enum_i,
                   source_relative, gen_commands, commands_file, parsed>>
    /\ UNCHANGED <<execVars, tierVars, listVars>>

RECURSIVE DigitRun(_, _)
\* how many digits stand in s from position p on
DigitRun(s, p) ==
    IF p <= Len(s) /\ IsDigit(s[p]) THEN 1 + DigitRun(s, p + 1) ELSE 0

RECURSIVE SpaceRun(_, _)
\* how many whitespace characters stand in s from position p on
SpaceRun(s, p) ==
    IF p <= Len(s) /\ IsSpace(s[p]) THEN 1 + SpaceRun(s, p + 1) ELSE 0

\* the group of r'\((\d+\.?\d*)\s*MB\)' matched at position p of s, None
\* if the pattern does not match there
SizeGroupAt(s, p) ==
    LET d1 == DigitRun(s, p + 1)
        q == p + 1 + d1
        dot == IF q <= Len(s) /\ s[q] = "." THEN 1 ELSE 0
        d2 == DigitRun(s, q + dot)
        r == q + dot + d2 + SpaceRun(s, q + dot + d2)
    IN  IF /\ s[p] = "("
           /\ d1 >= 1
           /\ r + 2 <= Len(s)
           /\ SubSeq(s, r, r + 2) = <<"M", "B", ")">>
        THEN SubSeq(s, p + 1, q + dot + d2 - 1)
        ELSE None

\* run_rclone_colab_improved.py lines 41-45: re.search takes the leftmost
\* match; the size is in hundredths of a MB
extract_size_from_comment(file_info) ==
    LET hits == {p \in 1..Len(file_info) : SizeGroupAt(file_info, p) # None} IN
    IF hits = {} THEN 0
    ELSE FloatValue(SizeGroupAt(file_info,
                                CHOOSE p \in hits : \A h \in hits : p <= h))

\* the comment line before a command is not looked at
ParseLineIgnoresComment(st, raw) ==
    LET line == Strip(raw) IN
    IF StartsWith(line, <<"!", "r", "c", "l", "o", "n", "e">>)
    THEN [current |-> st.current + 1,
          current_file_info |-> st.current_file_info,
          commands |-> Append(st.commands,
                              [current |-> st.current + 1,
                               cmd |-> Tail(line),
                               file_info |-> st.current_file_info])]
    ELSE st

\* run_rclone_colab_improved.py lines 144-153: one line of the commands file
ParseLine(st, raw) ==
    LET line == Strip(raw)
        info == IF StartsWith(line, <<"#", " ", "F", "i", "l", "e">>) /\ HasChar(line, ":")
                THEN Strip(SplitOnce(line, ":")[2])
                ELSE st.current_file_info
    IN  IF StartsWith(line, <<"!", "r", "c", "l", "o", "n", "e">>)
        THEN [current |-> st.current + 1,
              current_file_info |-> info,
              commands |-> Append(st.commands,
                                  [current |-> st.current + 1,
                                   cmd |-> Tail(line),
                                   file_info |-> info])]
        ELSE [st EXCEPT !.current_file_info = info]

RECURSIVE ParseLines(_, _)
\* the loop of line 143 over the lines that are left
ParseLines(st, lines) ==
    IF lines = <<>> THEN st
    ELSE ParseLines(ParseLine(st, Head(lines)), Tail(lines))

\* run_rclone_colab_improved.py lines 139-153: the list parsed from a file
ParsedCommands(lines) ==
    ParseLines([current |-> 0, current_file_info |-> <<>>, commands |-> <<>>],
               lines).commands

\* run_rclone_colab_improved.py line 84: the name shown for a job
ShortName(file_info) ==
    LET name == IF HasChar(file_info, "(")
                THEN Strip(Split(file_info, "(")[1])
                ELSE file_info
    IN  SubSeq(name, 1, IF Len(name) < 45 THEN Len(name) ELSE 45)

\* run_rclone_colab_improved.py lines 69-73: the log path the executor takes
\* from a command, empty if the command names none
LogFileOf(cmd) ==
    IF Contains(cmd, <<"-", "-", "l", "o", "g", "-", "f", "i", "l", "e", "=">>)
    THEN FirstToken(SecondPiece(cmd, <<"-", "-", "l", "o", "g", "-", "f", "i", "l", "e", "=">>))
    ELSE <<>>

\* run_rclone_parallel is pointed at one of the saved files and parses it
\* (lines 139-156)
ReadCommands(f) ==
    /\ genPc = "saved"
    /\ f \in DOMAIN saved_files
    /\ genPc' = "read"
    /\ commands_file' = f
    /\ parsed' = ParsedCommands(saved_files[f])
    /\ UNCHANGED <<script, REMOTE_NAME, DESTINATION_REMOTE, file_entries, enum_i,
                   source_relative, gen_commands, saved_files>>
    /\ UNCHANGED <<execVars, tierVars, listVars>>

BuildOff ==
    /\ genPc = "off"
    /\ script = "none"
    /\ REMOTE_NAME = <<>>
    /\ DESTINATION_REMOTE = <<>>
    /\ file_entries = <<>>
    /\ enum_i = 0
    /\ source_relative = Unset
    /\ gen_commands = <<>>
    /\ saved_files = <<>>
    /\ commands_file = "none"
    /\ parsed = <<>>

(***************************************************************************)
(* The streaming lister: list_files_with_rclone_realtime of                *)
(* rclone_improved.py.                                                     *)
(***************************************************************************)
\* int(s) returns: s is an optional sign and digits (the characters of the
\* model hold no underscore and no digit outside 0-9)
IsIntText(s) ==
    LET body == IF s # <<>> /\ s[1] \in {"+", "-"} THEN Tail(s) ELSE s IN
    body # <<>> /\ \A k \in 1..Len(body) : IsDigit(body[k])

\* int(s) for such a text
IntOfText(s) ==
    IF s[1] = "-" THEN 0 - IntValue(Tail(s))
    ELSE IF s[1] = "+" THEN IntValue(Tail(s))
    ELSE IntValue(s)

\* line.split(None, 1) for a stripped line that is not empty: its first
\* token and, if anything follows the whitespace after it, the rest
SplitFirstSpace(line) ==
    LET tok == FirstToken(line)
        rest == LStripSpace(SubSeq(line, Len(tok) + 1, Len(line)))
    IN  IF rest = <<>> THEN <<tok>> ELSE <<tok, rest>>

\* remote_path, the argument of the lister
ListedRemote == <<"r", ":", "b">>

\* The lines `rclone ls` can write, as the loop reads them: two files, a
\* file whose path holds a blank, an empty line, a line of blanks, a line
\* of one token, and two lines whose first token is not an integer.
ListingLines ==
    { <<" ", " ", " ", "5", "2", "4", "2", "8", "8", " ", "s", "/", "f">> \o <<"\n">>,
      <<"1", "5", "7", "2", "8", "6", "4", "0", "0", " ", "f">> \o <<"\n">>,
      <<" ", "1", "2", " ", "a", " ", "b">> \o <<"\n">>,
      <<"\n">>,
      <<" ", " ", " ">> \o <<"\n">>,
      <<"N", "O", "T", "I", "C", "E">> \o <<"\n">>,
      <<"1", ".", "5", " ", "x">> \o <<"\n">>,
      <<"1", "2", "k", " ", "a", " ", "b">> \o <<"\n">> }

\* the process is started (lines 225-243)
ListInit ==
    /\ listPc = "loop"
    /\ \E n \in 0..MaxListing : stdout_lines \in [1..n -> ListingLines]
    /\ line_no = 0
    /\ list_entries = <<>>
    /\ list_result = Unset

\* the entry of lines 255-273 for a size token and a path
ListedEntry(size_text, file_path, n) ==
    LET mb == RoundedMB(IntOfText(size_text)) IN
    [formatted_entry |-> FormattedPath(RemoteNameOnly(ListedRemote), file_path,
                                       FloatStr(mb)),
     size_mb |-> mb,
     line |-> n]

\* a size that is not an integer ends the listing: the ValueError is not
\* caught at line 284 and reaches the handler of line 330
ListLineStopsAtBadSize ==
    /\ listPc = "loop"
    /\ line_no < Len(stdout_lines)
    /\ LET line == Strip(stdout_lines[line_no + 1])
           parts == SplitFirstSpace(line)
       IN  IF line = <<>> \/ Len(parts) # 2
           THEN UNCHANGED <<listPc, list_entries, list_result>>
           ELSE IF IsIntText(parts[1])
           THEN /\ list_entries' = Append(list_entries,
                                          ListedEntry(parts[1], parts[2], line_no + 1))
                /\ UNCHANGED <<listPc, list_result>>
           ELSE /\ listPc' = "done"
                /\ list_result' = None
                /\ UNCHANGED list_entries
    /\ line_no' = line_no + 1
    /\ UNCHANGED stdout_lines
    /\ UNCHANGED <<execVars, tierVars, buildVars>>

\* one pass of the loop of line 245: the line is passed over (lines 247-248,
\* 253, 284-286) or gives an entry (lines 255-273)
ListLine ==
    /\ listPc = "loop"
    /\ line_no < Len(stdout_lines)
    /\ LET line == Strip(stdout_lines[line_no + 1])
           parts == SplitFirstSpace(line)
       IN  IF line # <<>> /\ Len(parts) = 2 /\ IsIntText(parts[1])
           THEN list_entries' = Append(list_entries,
                                       ListedEntry(parts[1], parts[2], line_no + 1))
           ELSE UNCHANGED list_entries
    /\ line_no' = line_no + 1
    /\ UNCHANGED <<listPc, stdout_lines, list_result>>
    /\ UNCHANGED <<execVars, tierVars, buildVars>>

\* lines 288-328: the output is exhausted; None is returned if there is no
\* entry, else the entries sorted by size
ListReturn ==
    /\ listPc = "loop"
    /\ line_no = Len(stdout_lines)
    /\ listPc' = "done"
    /\ list_result' = IF list_entries = <<>> THEN None
                      ELSE SortedBySize(list_entries, FALSE)
    /\ UNCHANGED <<stdout_lines, line_no, list_entries>>
    /\ UNCHANGED <<execVars, tierVars, buildVars>>

ListOff ==
    /\ listPc = "off"
    /\ stdout_lines = <<>>
    /\ line_no = 0
    /\ list_entries = <<>>
    /\ list_result = Unset

\* the generator scripts are not what runs
GenOff == TierOff /\ BuildOff /\ ListOff

\* the executors are not what runs
ExecOff == ParOff /\ OracleOff /\ SeqOff

(***************************************************************************)
(* Specifications.                                                         *)
(***************************************************************************)
\* the parallel executor, run up to MaxRuns times in one process
Init == ParInit /\ OracleOff /\ SeqOff /\ GenOff
Next ==
    \/ RunStart
    \/ Submit
    \/ \E j \in Jobs : Dispatch(j)
    \/ \E j \in Jobs : Acquire(j)
    \/ \E j \in Jobs : SkipBody(j)
    \/ \E j \in Jobs : RegBody(j)
    \/ \E j \in Jobs, o \in ProcessOutcomes : SubprocessRun(j, o)
    \/ \E j \in Jobs : DoneBody(j)
    \/ Finish
    \/ Interrupt
    \/ ShutdownDone
Spec == Init /\ [][Next]_vars

\* a run of the parallel executor on a disk that holds earlier log files
InitOnDisk == ParInitOnDisk /\ OracleOff /\ SeqOff /\ GenOff
SpecOnDisk == InitOnDisk /\ [][Next]_vars

\* one file of gdrive_transfer.py, from the listing to its tier
InitTier == ExecOff /\ TierInit /\ BuildOff /\ ListOff
NextTier == ConvertSize \/ Classify
SpecTier == InitTier /\ [][NextTier]_vars

\* one call of generate_rclone_commands of either generator script
InitBuild == ExecOff /\ TierOff /\ BuildInit /\ ListOff
\* the commands files the generators write
FileNames ==
    {"rclone_commands_all.txt", "rclone_commands_largest_first.txt",
     "rclone_commands_smallest_first.txt", "rclone_commands_all_optimized.txt"}

NextBuild ==
    \/ GenerateStep
    \/ GenerateReturn
    \/ SaveCommands
    \/ \E f \in FileNames : ReadCommands(f)
SpecBuild == InitBuild /\ [][NextBuild]_vars

\* one call of list_files_with_rclone_realtime
InitList == ExecOff /\ TierOff /\ BuildOff /\ ListInit
NextList == ListLine \/ ListReturn
SpecList == InitList /\ [][NextList]_vars

\* Scheduling.  The main thread goes on submitting and, once every future
\* is done, leaves the pool and prints the summary; a worker thread that
\* can take a step takes it (the operating system runs every runnable
\* thread, and the lock is asked for a bounded number of times, so a
\* waiting thread gets it); every subprocess terminates.  Nothing obliges
\* the user to call run_rclone_parallel again or to interrupt it.
Fairness ==
    /\ WF_vars(Submit)
    /\ WF_vars(Finish)
    /\ WF_vars(ShutdownDone)
    /\ \A j \in Jobs :
          /\ WF_vars(Dispatch(j))
          /\ WF_vars(Acquire(j))
          /\ WF_vars(SkipBody(j))
          /\ WF_vars(RegBody(j))
          /\ WF_vars(\E o \in ProcessOutcomes : SubprocessRun(j, o))
          /\ WF_vars(DoneBody(j))
SpecFair == Spec /\ Fairness

\* check_log_completed alone
InitOracle == ParOff /\ OracleInit /\ SeqOff /\ GenOff
NextOracle == OracleCheck
SpecOracle == InitOracle /\ [][NextOracle]_vars

\* the sequential executor
InitSeq == ParOff /\ OracleOff /\ SeqInit /\ GenOff
NextSeq ==
    \/ SeqSkip
    \/ \E o \in SystemOutcomes : SeqRun(o)
    \/ SeqEnd
    \/ SeqResume
SpecSeq == InitSeq /\ [][NextSeq]_vars

\* either executor
SpecExec == (Init \/ InitSeq) /\ [][Next \/ NextSeq]_vars

(***************************************************************************)
(* Properties of the parallel executor.                                    *)
(***************************************************************************)
\* the jobs in the Running state: registered, outcome not yet recorded
Running == {j \in Jobs : pc[j] \in RunningStates}

CountSum == completed_count + failed_count + skipped_count

\* C1: at no instant are more than max_workers jobs Running, and the
\* active-transfers table never holds more than max_workers entries.
C1_AtMostNRunning ==
    /\ Cardinality(Running) <= max_workers
    /\ Cardinality(active_transfers) <= max_workers

\* the pool is full and a further job waits in the queue
C1_Witness ==
    /\ Cardinality(Running) = max_workers
    /\ Cardinality(active_transfers) = max_workers
    /\ \E j \in Jobs : pc[j] = "Queued"

C3_OneOutcomePerJob ==
    /\ [](/\ \A j \in Jobs : /\ recorded[j] <= 1
                             /\ recorded[j] = 1 <=> pc[j] \in TerminalStates
          /\ skipped_count = Cardinality({j \in Jobs : pc[j] = "Skipped"})
          /\ completed_count = Cardinality({j \in Jobs : pc[j] = "Completed"})
          /\ failed_count = Cardinality({j \in Jobs : pc[j] = "Failed"}))
    /\ [][\A j \in Jobs :
            pc[j] \in TerminalStates => pc'[j] = pc[j] \/ runNo' = runNo + 1]_vars

\* a run has finished in which each of the three outcomes was recorded
C3_Witness ==
    /\ mainPc = "summary"
    /\ \E j \in Jobs : pc[j] = "Skipped"
    /\ \E j \in Jobs : pc[j] = "Completed"
    /\ \E j \in Jobs : pc[j] = "Failed"
    /\ \A j \in Jobs : recorded[j] = 1
    /\ CountSum = total

\* C4: once KeyboardInterrupt is raised during a run, no job that is still
\* Pending goes to Running: a job that no worker had taken when the
\* interrupt came is not taken up for launch afterwards (it stays where it
\* is, or is skipped on the oracle's word), so that the counts of the
\* interrupted run are those of the jobs taken before the interrupt.
C4_NoLaunchAfterInterrupt ==
    [][interrupted =>
         \A j \in Jobs :
            pc[j] \in {"NotSubmitted", "Queued"}
               => pc'[j] \in {"NotSubmitted", "Queued", "SkipLock"}]_vars

(***************************************************************************)
(* What a log shows, stated on the text itself.                            *)
(***************************************************************************)
\* the place in the alphabet of each letter, small or capital
LetterNo ==
    [c \in {LowerCase[i] : i \in 1..26} \cup {UpperCase[i] : i \in 1..26} |->
        CHOOSE i \in 1..26 : c \in {LowerCase[i], UpperCase[i]}]

\* the same letter, in either case
SameLetter(a, b) ==
    \/ a = b
    \/ /\ a \in DOMAIN LetterNo
       /\ b \in DOMAIN LetterNo
       /\ LetterNo[a] = LetterNo[b]

\* m occurs in s
Occurs(s, m) ==
    \E i \in 1..(Len(s) - Len(m) + 1) : SubSeq(s, i, i + Len(m) - 1) = m

\* m occurs in s in some letter case
OccursAnyCase(s, m) ==
    \E i \in 1..(Len(s) - Len(m) + 1) :
        \A k \in 1..Len(m) : SameLetter(s[i + k - 1], m[k])

\* 'error' or 'failed' in any letter case
ShowsError(text) == OccursAnyCase(text, MarkERROR) \/ OccursAnyCase(text, MarkFAILED)

\* '100%', 'Transferred:' or 'Elapsed time:'
ShowsSuccessMarker(text) ==
    Occurs(text, Mark100) \/ Occurs(text, MarkTransferred) \/ Occurs(text, MarkElapsed)

\* the log shows success: a success marker and no error/failure marker
ShowsSuccess(f) ==
    /\ f.exists
    /\ f.readable
    /\ LET text == FileText(f) IN ShowsSuccessMarker(text) /\ ~ShowsError(text)

\* C5: resume across runs on the same commands file: a job whose log, as
\* the run found it, shows success is Skipped and no subprocess is launched
\* for it; a job whose log is missing, empty, truncated or holds an error
\* marker is never skipped, and is launched again.
C5_ResumeAcrossRuns ==
    commands # <<>> =>
      \A j \in Jobs :
         commands[j].log_file =>
           LET success == ShowsSuccess(logAtStart[j]) IN
           /\ success =>
                /\ pc[j] \in {"NotSubmitted", "Queued", "SkipLock", "SkipBody", "Skipped"}
                /\ launched[j] = 0
                /\ logs[j] = logAtStart[j]
                /\ mainPc = "summary" => pc[j] = "Skipped"
           /\ ~success =>
                /\ pc[j] \notin {"SkipLock", "SkipBody", "Skipped"}
                /\ pc[j] \in RunningStates => j \in active_transfers
                /\ mainPc = "summary" => launched[j] = 1

\* a third run has finished with job 1 skipped on a log that two earlier
\* attempts wrote: the first left it truncated, so that the second run
\* launched the job again and left the success marker
C5_Witness ==
    /\ runNo = 3
    /\ mainPc = "summary"
    /\ logAtStart[1].lines = <<"INFO", "INFO", "Transferred:">>
    /\ ShowsSuccess(logAtStart[1])
    /\ pc[1] = "Skipped"
    /\ launched[1] = 0

\* C6: errors dominate: a log whose content holds 'error' or 'failed' in
\* any letter case makes check_log_completed return false, whichever
\* success markers it also holds.
C6_ErrorsDominate ==
    (/\ oracleResult \in {"true", "false"}
     /\ oracleFile.exists
     /\ oracleFile.readable
     /\ ShowsError(FileText(oracleFile))) => oracleResult = "false"

\* a log with a failure marker in mixed case and a success marker
C6_Witness ==
    /\ oracleFile.lines = <<"fAiLeD", "100%">>
    /\ oracleFile.readable
    /\ oracleResult = "false"

\* C7: check_log_completed returns true if and only if the file exists, is
\* readable, holds no error/failure marker and holds a success marker; it
\* returns false for a missing path, an empty file, an unreadable file and a
\* content with neither kind of marker.
C7_DecisionTable ==
    oracleResult \in {"true", "false"} =>
      /\ oracleResult = "true" <=> ShowsSuccess(oracleFile)
      /\ ~oracleFile.exists => oracleResult = "false"
      /\ ~oracleFile.readable => oracleResult = "false"
      /\ oracleFile.lines = <<>> => oracleResult = "false"
      /\ (/\ ~ShowsError(FileText(oracleFile))
          /\ ~ShowsSuccessMarker(FileText(oracleFile))) => oracleResult = "false"

\* a log with a line that is no marker and one success marker
C7_Witness ==
    /\ oracleFile.lines = <<"transferred:", "Elapsed time:">>
    /\ oracleFile.readable
    /\ oracleResult = "true"

\* C8: a job the oracle reports done launches nothing: its activation goes
\* from the oracle's answer to Skipped and nowhere else, the job is not in
\* active_transfers, no subprocess is started and its log is not written,
\* and recording it adds one to skipped_count and changes no other counter.
C8_SkipLaunchesNothing ==
    /\ [](\A j \in Jobs :
            pc[j] \in SkippingStates \cup {"Skipped"} =>
               /\ j \notin active_transfers
               /\ launched[j] = 0
               /\ logs[j] = logAtStart[j])
    /\ [][\A j \in Jobs :
            /\ (/\ pc[j] = "Queued"
                /\ pc'[j] # "Queued"
                /\ commands[j].log_file
                /\ ShowsSuccess(logs[j])) => pc'[j] = "SkipLock"
            /\ pc[j] \in SkippingStates => pc'[j] \in SkippingStates \cup {"Skipped"}
            /\ (pc[j] = "SkipBody" /\ pc'[j] # "SkipBody") =>
                  /\ skipped_count' = skipped_count + 1
                  /\ UNCHANGED <<completed_count, failed_count,
                                 total_bytes_transferred, active_transfers,
                                 logs, launched>>]_vars

\* a job was skipped while another job was Running
C8_Witness ==
    \E j, k \in Jobs :
        /\ pc[j] = "Skipped"
        /\ skipped_count = 1
        /\ pc[k] = "Subprocess"
        /\ active_transfers = {k}

\* C9: a Running job ends Completed if and only if subprocess.run returned
\* exit status zero; it ends Failed on a nonzero status and on an exception
\* of the call, and then failed_count grows by one and completed_count is
\* unchanged.
C9_RunningOutcome ==
    [][\A j \in Jobs :
         /\ pc[j] \in RunningStates => pc'[j] \in RunningStates \cup {"Completed", "Failed"}
         /\ (pc[j] = "DoneBody" /\ pc'[j] # "DoneBody") =>
               /\ pc'[j] = "Completed" <=> result[j] = "zero"
               /\ result[j] = "zero" =>
                     /\ completed_count' = completed_count + 1
                     /\ failed_count' = failed_count
               /\ result[j] \in {"nonzero", "raised"} =>
                     /\ pc'[j] = "Failed"
                     /\ failed_count' = failed_count + 1
                     /\ completed_count' = completed_count]_vars

\* a first run ended with job 1 failed on an exception (it was launched
\* and its log was never opened), job 2 completed and job 3 failed
C9_Witness ==
    /\ runNo = 1
    /\ mainPc = "summary"
    /\ pc[1] = "Failed" /\ launched[1] = 1 /\ ~logs[1].exists
    /\ pc[3] = "Failed" /\ launched[3] = 1
    /\ pc[2] = "Completed"
    /\ failed_count = 2
    /\ completed_count = 1

\* C10: a job that fails does not keep any other job from being dispatched
\* and reaching its own terminal state: a parallel run that was not
\* interrupted ends with every job terminal, an interrupted one with every
\* submitted job terminal, and a sequential run that was not interrupted
\* has run every command from start_from on.
C10_FailuresDoNotAbort ==
    /\ mainPc = "summary" => \A j \in Jobs : pc[j] \in TerminalStates
    /\ mainPc = "interrupted" =>
          \A j \in Jobs : j <= submitted => pc[j] \in TerminalStates
    /\ (seqPc = "done" /\ ~seqInterrupted) =>
          \A k \in 1..seqTotal :
             k >= start_from => seqStatus[k] \in {"exit0", "exit1", "raised"}
    /\ seqPc = "loop" =>
          \A k \in 1..current :
             k >= start_from => seqStatus[k] \in {"exit0", "exit1", "raised"}

\* a parallel run in which the first job failed and the later ones were
\* launched and completed
C10_Witness ==
    /\ mainPc = "summary"
    /\ pc[1] = "Failed"
    /\ \A j \in Jobs : j > 1 => pc[j] = "Completed" /\ launched[j] = 1

(***************************************************************************)
(* Lock discipline, order of completion, termination.                      *)
(***************************************************************************)
\* the pool of the current run is open: worker threads may exist
PoolOpen == mainPc \in {"submit", "wait", "shutdown"}

\* the counters and the table the lock protects
Shared == <<completed_count, failed_count, skipped_count,
            total_bytes_transferred, active_transfers>>

\* C11: while worker threads exist, every write to completed_count,
\* failed_count, skipped_count, total_bytes_transferred and active_transfers
\* is a step of the thread that holds the lock, inside one of its `with
\* lock` bodies; and no thread holds the lock while its subprocess runs.
C11_LockDiscipline ==
    /\ [](\A j \in Jobs :
            /\ pc[j] = "Subprocess" => lock # j
            /\ lock = j <=> pc[j] \in {"SkipBody", "RegBody", "DoneBody"})
    /\ [][(PoolOpen /\ Shared' # Shared) =>
             /\ lock \in Jobs
             /\ pc[lock] \in {"SkipBody", "RegBody", "DoneBody"}
             /\ pc'[lock] # pc[lock]
             /\ \A k \in Jobs \ {lock} : pc'[k] = pc[k]]_vars

\* a worker records its outcome under the lock while another waits for the
\* lock with its outcome in hand and a third job's subprocess has been
\* recorded already
C11_Witness ==
    \E j, k \in Jobs :
        /\ lock = j
        /\ pc[j] = "DoneBody"
        /\ pc[k] = "DoneLock"
        /\ completed_count + failed_count = 1
        /\ active_transfers = {j, k}

\* the sizes of the jobs of S, added up
RECURSIVE SizeSum(_)
SizeSum(S) ==
    IF S = {} THEN 0
    ELSE LET j == CHOOSE x \in S : TRUE IN commands[j].size_mb + SizeSum(S \ {j})

C13_EveryJobEnds ==
    (mainPc = "submit") ~>
        \/ interrupted
        \/ /\ mainPc = "summary"
           /\ \A j \in Jobs : pc[j] \in TerminalStates

\* an uninterrupted run has reached its summary with every job terminal
C13_Witness ==
    /\ mainPc = "summary"
    /\ ~interrupted
    /\ submitted = total
    /\ queue = <<>>
    /\ \A j \in Jobs : pc[j] \in TerminalStates

(***************************************************************************)
(* Properties of the size classifier.                                      *)
(***************************************************************************)
Tiers == <<"TINY", "SMALL", "MEDIUM", "LARGE", "HUGE">>

\* the place of a label in the order of the tiers, 0 for no tier
TierRank(label) ==
    IF \E k \in 1..5 : Tiers[k] = label
    THEN CHOOSE k \in 1..5 : Tiers[k] = label
    ELSE 0

\* C14: get_optimal_parameters is total and single-valued: every size gets
\* one of the five tiers; the tiers are contiguous ranges in the order
\* TINY, SMALL, MEDIUM, LARGE, HUGE, that is, a size never gets a lower tier
\* than a smaller size does and no tier between those of two sizes is left
\* out between them; and the top tier has no upper bound: every size of at
\* least a HUGE size is HUGE.
C14_TotalMonotone ==
    tierPc = "done" =>
      /\ TierRank(category) \in 1..5
      /\ \A s \in MBSizes :
            LET r == TierRank(get_optimal_parameters(s)) IN
            /\ r \in 1..5
            /\ s <= size_in_mb => r <= TierRank(category)
            /\ s >= size_in_mb => r >= TierRank(category)
            /\ (s <= size_in_mb /\ r = 5) => category = "HUGE"
            /\ \A k \in 1..5 :
                  (r < k /\ k < TierRank(category)) =>
                     \E t \in MBSizes :
                        /\ s < t
                        /\ t < size_in_mb
                        /\ TierRank(get_optimal_parameters(t)) = k

\* the largest size handed to the classifier got the top tier
C14_Witness ==
    /\ tierPc = "done"
    /\ \A s \in MBSizes : s <= size_in_mb
    /\ category = "HUGE"

\* C15 as stated: the tier boundaries are half-open on the byte size of the
\* file, at 1 MB, 10 MB, 100 MB and 1 GB (taken as the 1000 MB of line 78):
\* a listed file of fewer bytes than a boundary gets the lower tier, one of
\* at least as many the upper tier.
C15_BoundariesOnBytes ==
    (tierPc = "done" /\ file_size >= 0) =>
      /\ category = "TINY" <=> file_size < 1 * BytesPerMB
      /\ category = "SMALL" <=>
            (1 * BytesPerMB <= file_size /\ file_size < 10 * BytesPerMB)
      /\ category = "MEDIUM" <=>
            (10 * BytesPerMB <= file_size /\ file_size < 100 * BytesPerMB)
      /\ category = "LARGE" <=>
            (100 * BytesPerMB <= file_size /\ file_size < 1000 * BytesPerMB)
      /\ category = "HUGE" <=> 1000 * BytesPerMB <= file_size

\* the entry the k-th command was built from (i is its position in the input)
EntryOf(k) == file_entries[gen_commands[k].i + 1]

\* the entry stands for a listed file with a non-empty relative path
HasPath(e) == e.path # None /\ e.path # <<>>

\* the base folder of the configured source root, <<>> when it has none
BaseFolder ==
    IF HasChar(REMOTE_NAME, ":") THEN SplitOnce(REMOTE_NAME, ":")[2] ELSE <<>>

\* C16 as stated: in rclone_improved.py, with a source root remote:base of
\* non-empty base folder, the destination of every entry with a non-empty
\* relative path is dest_root followed by that relative path only.
C16_BaseFolderStripped ==
    (script = "rclone_improved" /\ BaseFolder # <<>>) =>
        \A k \in 1..Len(gen_commands) :
            HasPath(EntryOf(k)) =>
                gen_commands[k].dest_path = DESTINATION_REMOTE \o EntryOf(k).path

\* a remote path read as its sequence of segments: the remote name, then the
\* non-empty pieces between separators
PathSegments(p) ==
    LET sp == SplitOnce(p, ":") IN
    <<sp[1]>> \o SelectSeq(IF Len(sp) > 1 THEN Split(sp[2], "/") ELSE <<>>,
                           LAMBDA x : x # <<>>)

\* s begins with the sequence a and ends with the sequence b, disjointly
BeginsAndEnds(s, a, b) ==
    /\ Len(s) >= Len(a) + Len(b)
    /\ SubSeq(s, 1, Len(a)) = a
    /\ SubSeq(s, Len(s) - Len(b) + 1, Len(s)) = b

\* C17 as stated: for every entry with a non-empty relative path the
\* destination, read as segments, begins with the segments of dest_root and
\* ends with every segment of the relative path, in order, none of them
\* merged with a segment of dest_root, with or without a trailing separator
\* on dest_root.
C17_SegmentsPreserved ==
    \A k \in 1..Len(gen_commands) :
        HasPath(EntryOf(k)) =>
            BeginsAndEnds(PathSegments(gen_commands[k].dest_path),
                          PathSegments(DESTINATION_REMOTE),
                          Split(EntryOf(k).path, "/"))

RECURSIVE NormalizedRoot(_)
\* a root without its trailing separators ('/' and the ':' of a bare remote)
NormalizedRoot(p) ==
    IF p # <<>> /\ p[Len(p)] \in {"/", ":"}
    THEN NormalizedRoot(SubSeq(p, 1, Len(p) - 1))
    ELSE p

\* C18 as stated: an entry whose relative path is empty gets dest_root
\* itself as its destination, trailing separator normalized, nothing
\* appended.  Stated for rclone_improved.py, which strips the base folder,
\* and for gdrive_transfer.py where the source root has no base folder.
C18_EmptyRelativeIsRoot ==
    (script = "rclone_improved" \/ BaseFolder = <<>>) =>
        \A k \in 1..Len(gen_commands) :
            EntryOf(k).path = <<>> =>
                NormalizedRoot(gen_commands[k].dest_path)
                    = NormalizedRoot(DESTINATION_REMOTE)

\* the destination a fresh call of the builder computes for one entry
\* (None when the entry is skipped)
Translate(formatted_entry) ==
    LET source_path == extract_file_path_from_format(formatted_entry, REMOTE_NAME) IN
    IF Falsy(source_path) THEN None ELSE Dest(source_path, Unset).dest_path

\* a path read as an entry again: the string the lister would format for it
AsEntry(p) == FormattedPath(RemoteNameOnly(REMOTE_NAME), p, <<"1", ".", "0">>)

\* the part of a destination beneath the destination root
BeneathRoot(d) ==
    IF StartsWith(d, DESTINATION_REMOTE)
    THEN SubSeq(d, Len(DESTINATION_REMOTE) + 1, Len(d))
    ELSE <<>>

\* C19 as stated: translating the output of a translation again, with the
\* same configuration, gives the same destination and adds no prefix a
\* second time.  The output is read as an entry in the way most favourable
\* to the claim: either the whole destination path or its part beneath
\* dest_root is the path of the new entry.
C19_TranslateIdempotent ==
    \A k \in 1..Len(gen_commands) :
        LET d == gen_commands[k].dest_path IN
        \/ Translate(AsEntry(d)) = d
        \/ Translate(AsEntry(BeneathRoot(d))) = d

\* the entry has at least two segments once its quotes are removed and it
\* is split at the separators
WellFormed(e) == Len(Split(StripQuotes(e.formatted_entry), "/")) >= 2

\* C20: a malformed entry (fewer than two segments) makes
\* extract_file_path_from_format return None and gets no job; every other
\* entry passed so far, before or after it, has exactly one job, so the jobs
\* are as many as the well-formed entries; the loop reaches the end of the
\* input.
C20_MalformedSkipped ==
    LET wf == {n \in 1..enum_i : WellFormed(file_entries[n])} IN
    /\ \A n \in 1..Len(file_entries) :
          ~WellFormed(file_entries[n]) =>
              extract_file_path_from_format(file_entries[n].formatted_entry, REMOTE_NAME) = None
    /\ \A k \in 1..Len(gen_commands) : gen_commands[k].i + 1 \in wf
    /\ \A n \in wf :
          Cardinality({k \in 1..Len(gen_commands) : gen_commands[k].i + 1 = n}) = 1
    /\ Len(gen_commands) = Cardinality(wf)
    /\ genPc = "done" => enum_i = Len(file_entries)

\* a list with a malformed entry between two listed files was built: two jobs
C20_Witness ==
    /\ genPc = "done"
    /\ Len(file_entries) = 3
    /\ HasPath(file_entries[1])
    /\ ~WellFormed(file_entries[2])
    /\ HasPath(file_entries[3])
    /\ Len(gen_commands) = 2
    /\ gen_commands[1].i = 0
    /\ gen_commands[2].i = 2

\* the list a saved file was written from
OrderIn(f) ==
    CASE f = "rclone_commands_largest_first.txt" -> SortedBySize(gen_commands, TRUE)
      [] f = "rclone_commands_smallest_first.txt" -> SortedBySize(gen_commands, FALSE)
      [] OTHER -> gen_commands

TierOfSize(h) ==
    CASE h < 100 -> "TINY"
      [] 100 <= h /\ h < 1000 -> "SMALL"
      [] 1000 <= h /\ h < 10000 -> "MEDIUM"
      [] 10000 <= h /\ h < 100000 -> "LARGE"
      [] 100000 <= h -> "HUGE"

\* C22: the k-th job gdrive_transfer.py builds comes from the k-th
\* well-formed entry of the input, has that entry's size and is tagged with
\* the tier of that size, whose parameters its command carries.
C22_OrderAndTier ==
    script = "gdrive_transfer" =>
        \A k \in 1..Len(gen_commands) :
            LET job == gen_commands[k] IN
            /\ WellFormed(EntryOf(k))
            /\ Cardinality({n \in 1..(job.i + 1) : WellFormed(file_entries[n])}) = k
            /\ job.size_mb = EntryOf(k).size_mb
            /\ job.params = TierOfSize(EntryOf(k).size_mb)
            /\ Contains(job.cmd, <<" ">> \o TierParams(TierOfSize(EntryOf(k).size_mb)) \o <<" ", ">", " ">>)

\* the five sizes of the scenario, smallest first, gave the five tiers in
\* their order
C22_Witness ==
    /\ genPc = "done"
    /\ script = "gdrive_transfer"
    /\ [k \in 1..Len(file_entries) |-> file_entries[k].size_mb]
          = <<50, 500, 5000, 50000, 500000>>
    /\ [k \in 1..Len(gen_commands) |-> gen_commands[k].params]
          = <<"TINY", "SMALL", "MEDIUM", "LARGE", "HUGE">>

GoodLine(raw) ==
    LET s == Strip(raw) IN
    \E n \in 1..(Len(s) - 1) : IsIntText(SubSeq(s, 1, n)) /\ IsSpace(s[n + 1])

\* the lines of that form among the first n lines of the output
GoodLinesUpTo(n) == {k \in 1..n : GoodLine(stdout_lines[k])}

\* C24: a blank line, a line of one token and a line whose size is not an
\* integer give no entry and do not end the listing; the entries are
\* exactly the lines '<integer> <path>' read so far, one entry each, in
\* their order; the loop reads the output to its end and all the entries
\* are returned.
C24_BadLinesTolerated ==
    /\ {list_entries[k].line : k \in 1..Len(list_entries)} = GoodLinesUpTo(line_no)
    /\ Len(list_entries) = Cardinality(GoodLinesUpTo(line_no))
    /\ \A k \in 1..(Len(list_entries) - 1) : list_entries[k].line < list_entries[k + 1].line
    /\ listPc = "done" =>
          /\ line_no = Len(stdout_lines)
          /\ IF GoodLinesUpTo(Len(stdout_lines)) = {}
             THEN list_result = None
             ELSE /\ Len(list_result) = Cardinality(GoodLinesUpTo(Len(stdout_lines)))
                  /\ {list_result[k].line : k \in 1..Len(list_result)}
                        = GoodLinesUpTo(Len(stdout_lines))

\* a file, a line with a size that is no integer, and another file were
\* read: two entries, of the first and the third line
C24_Witness ==
    /\ listPc = "done"
    /\ Len(stdout_lines) = 3
    /\ GoodLine(stdout_lines[1])
    /\ ~GoodLine(stdout_lines[2])
    /\ Len(SplitFirstSpace(Strip(stdout_lines[2]))) = 2
    /\ GoodLine(stdout_lines[3])
    /\ list_result # None
    /\ {list_result[k].line : k \in 1..Len(list_result)} = {1, 3}

(***************************************************************************)
(* The sequential executor: start_from, pause and resume.                  *)
(***************************************************************************)
\* the commands read so far are passed over below start_from and executed
\* from start_from on, the others are untouched; completed is bounded
C25_Positions ==
    seqPc # "off" =>
       /\ \A k \in 1..seqTotal :
             /\ (k <= current /\ k < start_from) => seqStatus[k] = "passed"
             /\ (k <= current /\ k >= start_from) => seqStatus[k] \in SystemOutcomes
             /\ k > current => seqStatus[k] = "notrun"
       /\ completed <= seqTotal - start_from + 1
       /\ completed = Cardinality({k \in 1..seqTotal : seqStatus[k] \in {"exit0", "exit1"}})
       /\ (seqPc = "done" /\ ~seqInterrupted) => current = seqTotal

\* a step of a run that touches a command touches the next one only
C25_OneAtATime ==
    (seqPc = "loop" /\ seqStatus' # seqStatus) =>
       /\ current' = current + 1
       /\ seqStatus[current'] = "notrun"
       /\ \A k \in 1..seqTotal : k # current' => seqStatus'[k] = seqStatus[k]

Ended(st) == st \in {"exit0", "exit1", "raised"}

LogPathIn(cmd) ==
    IF script = "rclone_improved"
    THEN LogFileOf(cmd)
    ELSE FirstToken(SecondPiece(cmd, <<" ", ">", " ">>))

\* C27: no two jobs built by one call of generate_rclone_commands have the
\* same log file, also when malformed entries were skipped; the log paths
\* the executor takes from the commands of a saved list are pairwise
\* different, so the log of one job is never the one inspected for another.
C27_LogPathsInjective ==
    /\ \A a \in 1..Len(gen_commands) :
          /\ LogPathIn(gen_commands[a].cmd) = LogFileName(gen_commands[a].i)
          /\ \A b \in 1..Len(gen_commands) :
                a # b => LogPathIn(gen_commands[a].cmd) # LogPathIn(gen_commands[b].cmd)
    /\ (genPc = "read" /\ script = "rclone_improved") =>
          \A a, b \in 1..Len(parsed) :
             a # b => LogFileOf(parsed[a].cmd) # LogFileOf(parsed[b].cmd)

\* three jobs were built from a list of three files by gdrive_transfer.py
\* and two from a list with a skipped entry by rclone_improved.py
C27_Witness ==
    /\ genPc = "done"
    /\ \/ /\ script = "gdrive_transfer"
          /\ Len(gen_commands) = 3
          /\ LogPathIn(gen_commands[1].cmd) = <<"r", "c", "l", "o", "n", "e", "_", "o", "u", "t", "p", "u", "t", ".", "l", "o", "g">>
          /\ LogPathIn(gen_commands[2].cmd) = <<"r", "c", "l", "o", "n", "e", "_", "o", "u", "t", "p", "u", "t", "0", "1", ".", "l", "o", "g">>
          /\ LogPathIn(gen_commands[3].cmd) = <<"r", "c", "l", "o", "n", "e", "_", "o", "u", "t", "p", "u", "t", "0", "2", ".", "l", "o", "g">>
       \/ /\ script = "rclone_improved"
          /\ Len(file_entries) = 3
          /\ Len(gen_commands) = 2
          /\ LogPathIn(gen_commands[1].cmd) = <<"/", "l", "/", "r", "c", "l", "o", "n", "e", "_", "o", "u", "t", "p", "u", "t", ".", "l", "o", "g">>
          /\ LogPathIn(gen_commands[2].cmd) = <<"/", "l", "/", "r", "c", "l", "o", "n", "e", "_", "o", "u", "t", "p", "u", "t", "0", "2", ".", "l", "o", "g">>

(***************************************************************************)
(* The size total and the table of active transfers.                       *)
(***************************************************************************)
\* C28: in every state of a parallel run total_bytes_transferred is the sum
\* of the sizes of the jobs that ended Completed in this run, Skipped and
\* Failed jobs adding nothing, and within a run it never decreases.
C28_BytesOfCompleted ==
    /\ [](total_bytes_transferred = SizeSum({j \in Jobs : pc[j] = "Completed"}))
    /\ [][runNo' = runNo => total_bytes_transferred' >= total_bytes_transferred]_vars

\* a run with a job of each outcome: the total is the size of the
\* completed one
C28_Witness ==
    /\ mainPc = "summary"
    /\ pc[1] = "Skipped"
    /\ pc[2] = "Failed"
    /\ pc[3] = "Completed"
    /\ launched[2] = 1
    /\ total_bytes_transferred = commands[3].size_mb
    /\ commands[3].size_mb > 0

\* C29: active_transfers holds exactly the jobs that are Running; a job is
\* entered in the step that takes it from Pending to Running, taken out in
\* the locked step that records its outcome, Completed or Failed, the
\* exception of subprocess.run included; a skipped job is never entered and
\* the table is empty when the run has finished.
C29_TableIsRunning ==
    /\ [](/\ active_transfers = Running
          /\ mainPc \in {"idle", "summary", "interrupted", "nocommands"}
                => active_transfers = {})
    /\ [][\A j \in Jobs :
            /\ (j \notin active_transfers /\ j \in active_transfers') =>
                  /\ pc[j] = "RegBody"
                  /\ pc'[j] = "Subprocess"
                  /\ lock = j
            /\ (j \in active_transfers /\ j \notin active_transfers') =>
                  /\ pc[j] = "DoneBody"
                  /\ lock = j
                  /\ pc'[j] \in {"Completed", "Failed"}
                  /\ completed_count' + failed_count'
                        = completed_count + failed_count + 1
            /\ pc'[j] \in SkippingStates \cup {"Skipped"} =>
                  j \notin active_transfers']_vars

\* a job whose subprocess.run raised has been recorded Failed and taken out
\* of the table while another job is still in it, and the first was skipped
C29_Witness ==
    \E j, k \in Jobs :
        /\ pc[1] = "Skipped"
        /\ pc[j] = "Failed"
        /\ launched[j] = 1
        /\ ~logs[j].exists
        /\ ~commands[j].log_file
        /\ pc[k] = "Subprocess"
        /\ active_transfers = {k}

(***************************************************************************)
(* Commands without --log-file=.                                           *)
(***************************************************************************)
\* C30: a job whose command carries no --log-file= argument is never
\* Skipped by the parallel executor, whatever log files are on the disk:
\* it is launched in every run, once when the run ends uninterrupted or
\* the job was submitted before the interrupt.
C30_NoLogFileNeverSkipped ==
    \A j \in Jobs :
       (commands # <<>> /\ ~commands[j].log_file) =>
          /\ pc[j] \notin SkippingStates \cup {"Skipped"}
          /\ pc[j] \in TerminalStates => launched[j] = 1
          /\ mainPc = "summary" => launched[j] = 1
          /\ (mainPc = "interrupted" /\ j <= submitted) => launched[j] = 1

\* every job found the log of a successful transfer on the disk: the job
\* whose command names its log was skipped, those without --log-file= were
\* launched
C30_Witness ==
    /\ mainPc = "summary"
    /\ \A j \in Jobs : check_log_completed(logAtStart[j])
    /\ pc[1] = "Skipped"
    /\ commands[1].log_file
    /\ \A j \in Jobs \ {1} :
          /\ ~commands[j].log_file
          /\ launched[j] = 1
          /\ pc[j] \in {"Completed", "Failed"}

(***************************************************************************)
(* The last lines of the summary.                                          *)
(***************************************************************************)
\* a call of run_rclone_parallel has returned without an interrupt: after
\* the summary, or at line 171 on a file without commands
RunEnded == mainPc \in {"summary", "nocommands"}

\* C31 as stated: at the end of an uninterrupted parallel run 'ALL
\* TRANSFERS COMPLETED' is emitted if and only if failed_count = 0, the
\* failure warning if and only if failed_count > 0, never both.
C31_MessagesByFailures ==
    RunEnded =>
       /\ AllCompletedPrinted <=> failed_count = 0
       /\ WarningPrinted <=> failed_count > 0
       /\ ~(AllCompletedPrinted /\ WarningPrinted)

\* C31, amended: at the end of an uninterrupted parallel run over a list of
\* commands that is not empty, 'ALL TRANSFERS COMPLETED' is emitted if and
\* only if failed_count = 0, the failure warning if and only if
\* failed_count > 0, never both; a run over a list without commands
\* returns before the summary and emits neither.
C31_MessagesByFailuresOfJobs ==
    /\ mainPc = "summary" =>
          /\ commands # <<>>
          /\ AllCompletedPrinted <=> failed_count = 0
          /\ WarningPrinted <=> failed_count > 0
          /\ ~(AllCompletedPrinted /\ WarningPrinted)
    /\ mainPc = "nocommands" =>
          /\ commands = <<>>
          /\ failed_count = 0
          /\ ~AllCompletedPrinted
          /\ ~WarningPrinted

\* a run has ended with a job skipped, a job completed and a job failed:
\* the warning is printed, the last line is not
C31_Witness ==
    /\ mainPc = "summary"
    /\ skipped_count = 1
    /\ completed_count = 1
    /\ failed_count = 1
    /\ WarningPrinted
    /\ ~AllCompletedPrinted

====
